---- MODULE Spec2Model ----
(***************************************************************************)
(* State-machine model of the s3-layer service: the dataset and model      *)
(* handlers of src/app/dataset.py and src/app/model.py working against a   *)
(* blob store (S3 buckets) and a relational metadata store (MySQL tables   *)
(* of src/app/db/models.py), the polygon normalizers of DatasetObject, and  *)
(* the authentication dependency of src/app/auth.py.                       *)
(*                                                                         *)
(* Every request handler is split at its externally visible interactions:  *)
(* the reads of its database transaction, each S3 call, and each commit.   *)
(* The engine is MySQL (src/app/db/engine.py:8) with sessions that do not  *)
(* autocommit: the SELECTs of one transaction read one snapshot, so they   *)
(* form one step; the writes issued before a commit become visible         *)
(* together at the commit, so they form one step with it; an exception     *)
(* before the commit closes the session and discards them.                 *)
(***************************************************************************)
EXTENDS Integers, Sequences, FiniteSets, TLC

VARIABLES
    s3,       \* the two buckets: key -> stored bytes
    db,       \* the committed rows of the five tables
    proc,     \* per worker: the request it serves, its position and locals
    nextUid,  \* source of uuid4() values (never repeats)
    calls,    \* number of requests accepted so far
    faults,   \* number of injected store failures so far
    hist,     \* history: what was uploaded, which deletes started/returned
    pin,      \* input of the pure-function specifications; the credentials
              \* of the arriving request in the authentication specification
    pout      \* output of the pure-function specifications

vars == <<s3, db, proc, nextUid, calls, faults, hist, pin, pout>>

----------------------------------------------------------------------------
(* Bounds *)

Procs == {1, 2}
MaxCalls == 3
MaxFaults == 1
\* file.file.read(65536): the chunk size, scaled down to the modelled contents
ChunkSize == 2

Names == {"f.csv"}
Contents == {<<1, 2>>, <<2, 1, 1>>}
TagVals == {"a", "b"}
TagLists == {<<>>, <<"a">>}

Min(a, b) == IF a < b THEN a ELSE b

----------------------------------------------------------------------------
(* Content hasher and upload stream *)

\* hashlib.sha1(): the state is the byte sequence fed so far, the digest is
\* an injective image of it
sha1_new == <<>>
sha1_update(h, data) == h \o data
sha1_hexdigest(h) == [alg |-> "sha1", of |-> h]

\* a read that returns only full chunks: the bytes after the last full
\* chunk are never returned
file_read_full_chunks(data, pos, n) ==
    IF pos + n <= Len(data) THEN SubSeq(data, pos + 1, pos + n) ELSE <<>>

\* file.file.read(n) at position pos
file_read(data, pos, n) == SubSeq(data, pos + 1, Min(pos + n, Len(data)))

\* the read loop of dataset_upload_file: returns the final position and hash
RECURSIVE hash_loop(_, _, _)
hash_loop(data, pos, sha) ==
    LET chunk == file_read(data, pos, ChunkSize)
    IN  IF chunk = <<>>
        THEN [pos |-> pos, sha |-> sha]
        ELSE hash_loop(data, pos + Len(chunk), sha1_update(sha, chunk))

\* file.file.seek(0) omitted: the position stays where the hasher left it
file_seek_omitted(pos, target) == pos

\* file.file.seek(target)
file_seek(pos, target) == target

\* an upload that writes nothing when some key already holds the same bytes
upload_fileobj_deduplicating(bucket, key, data, pos) ==
    IF \E k \in DOMAIN bucket : bucket[k] = SubSeq(data, pos + 1, Len(data))
    THEN bucket
    ELSE [k \in DOMAIN bucket \cup {key} |->
            IF k = key THEN SubSeq(data, pos + 1, Len(data)) ELSE bucket[k]]

\* s3.upload_fileobj(file.file, ...) stores what the stream yields from its
\* current position
upload_fileobj(bucket, key, data, pos) ==
    [k \in DOMAIN bucket \cup {key} |->
        IF k = key THEN SubSeq(data, pos + 1, Len(data)) ELSE bucket[k]]

\* a delete that removes every key ending in the same file name
delete_object_by_file_name(bucket, key) ==
    [k \in {k2 \in DOMAIN bucket : k2[2] # key[2]} |-> bucket[k]]

\* s3.delete_object: removing a missing key is not an error
delete_object(bucket, key) == [k \in DOMAIN bucket \ {key} |-> bucket[k]]

\* the key without its uuid part
s3_object_name_without_uuid(uid, file_name) == <<0, file_name>>

\* f"{uuid4()}-{file_name}"
s3_object_name(uid, file_name) == <<uid, file_name>>

----------------------------------------------------------------------------
(* Polygon texts and their parsed values                                   *)
(*                                                                         *)
(* A polygon text is [t, pts]: t = "list" is a JSON list of point objects, *)
(* each written as its sequence of <<key, value token>> members; "null",   *)
(* "number", "string" (the text of an empty JSON string) and "object"      *)
(* (the text of an empty JSON object) are the JSON texts that are not      *)
(* lists; "garbage" and "empty" are texts that are not JSON; "none" is     *)
(* Python's None passed where a text is expected.  A parsed value is       *)
(* [t, items] with the points as dicts (functions from keys to values).    *)

None == "None"

\* the value of a JSON value token
json_value(token) == IF token = "null" THEN None ELSE token

\* a JSON object literal as a dict: of repeated keys the last one wins
json_object(members) ==
    [k \in {members[i][1] : i \in DOMAIN members} |->
        LET last == CHOOSE i \in DOMAIN members :
                        /\ members[i][1] = k
                        /\ \A j \in DOMAIN members :
                                members[j][1] = k => j <= i
        IN  json_value(members[last][2])]

\* json.loads(text): the parsed value, or the exception raised
json_loads(text) ==
    CASE text.t = "none" -> [t |-> "TypeError", items |-> <<>>]
      [] text.t \in {"garbage", "empty"} ->
            [t |-> "JSONDecodeError", items |-> <<>>]
      [] text.t = "list" ->
            [t |-> "list",
             items |-> [i \in DOMAIN text.pts |-> json_object(text.pts[i])]]
      [] OTHER -> [t |-> text.t, items |-> <<>>]

\* one point of clean_polygons with the {left, top} encoding ignored
clean_polygon_xy_only(polygon) ==
    [k \in {"x", "y"} |->
        IF k \in DOMAIN polygon THEN polygon[k] ELSE None]

\* one iteration of the loop of clean_polygons
clean_polygon(polygon) ==
    LET x0 == IF "x" \in DOMAIN polygon THEN polygon["x"] ELSE None
        y0 == IF "y" \in DOMAIN polygon THEN polygon["y"] ELSE None
        x == IF x0 = None /\ "left" \in DOMAIN polygon
             THEN polygon["left"] ELSE x0
        y == IF y0 = None /\ "top" \in DOMAIN polygon
             THEN polygon["top"] ELSE y0
    IN  [k \in {"x", "y"} |-> IF k = "x" THEN x ELSE y]

\* clean_polygons without the type check: a value that is not a list is
\* walked like one and the walk fails on its first element
clean_polygons_no_type_check(polygon_list) ==
    IF polygon_list.t = "null" THEN <<>>
    ELSE IF polygon_list.t # "list" THEN <<"AttributeError">>
    ELSE [i \in DOMAIN polygon_list.items |->
            clean_polygon(polygon_list.items[i])]

\* DatasetObject.clean_polygons
clean_polygons(polygon_list) ==
    IF polygon_list.t = "null" THEN <<>>
    ELSE IF polygon_list.t # "list" THEN <<>>
    ELSE [i \in DOMAIN polygon_list.items |->
            clean_polygon(polygon_list.items[i])]

\* DatasetObject.polygon_string_to_json
polygon_string_to_json(polygon_string) ==
    LET loaded == json_loads(polygon_string)
        polygon_list ==
            IF loaded.t \in {"JSONDecodeError", "TypeError"}
            THEN [t |-> "list", items |-> <<>>]
            ELSE loaded
    IN  clean_polygons(polygon_list)

\* the renaming done on each node by the label handlers
rename_node(node) ==
    LET n1 == IF "left" \in DOMAIN node
              THEN [k \in (DOMAIN node \cup {"x"}) \ {"left"} |->
                        IF k = "x" THEN node["left"] ELSE node[k]]
              ELSE node
    IN  IF "top" \in DOMAIN n1
        THEN [k \in (DOMAIN n1 \cup {"y"}) \ {"top"} |->
                  IF k = "y" THEN n1["top"] ELSE n1[k]]
        ELSE n1

\* the completeness test with the test for y left out
node_complete_x_only(node) == "x" \in DOMAIN node

\* "x" not in node or "y" not in node, negated
node_complete(node) == "x" \in DOMAIN node /\ "y" \in DOMAIN node

\* the parse and the validation loop of dataset_file_add_label and
\* dataset_file_update_label: the response they end with, or 200 and the
\* renamed nodes.  Iterating over None or a number raises TypeError, which
\* no handler catches; an empty string or object has nothing to iterate.
parse_polygon(polygon) ==
    LET polygon_parsed == json_loads(polygon)
        renamed == [i \in DOMAIN polygon_parsed.items |->
                        rename_node(polygon_parsed.items[i])]
    IN  CASE polygon_parsed.t = "JSONDecodeError" ->
                [status |-> 400, detail |-> "Invalid polygon",
                 nodes |-> <<>>]
          [] polygon_parsed.t \in {"TypeError", "null", "number"} ->
                [status |-> 500, detail |-> "TypeError", nodes |-> <<>>]
          [] OTHER ->
                IF \E i \in DOMAIN renamed : ~node_complete(renamed[i])
                THEN [status |-> 400,
                      detail |-> "Invalid polygon: missing x or y",
                      nodes |-> <<>>]
                ELSE [status |-> 200, detail |-> "OK", nodes |-> renamed]

----------------------------------------------------------------------------
(* Worker records *)

NoKey == <<0, "">>
NoDigest == [alg |-> "none", of |-> <<>>]
NoText == [t |-> "none", pts |-> <<>>]
NoCall == [fn |-> "none", res |-> <<>>]
NoSearch == [t |-> "none", chars |-> <<>>]
\* a session without pending writes
NoSession == [dataset_objects |-> {}, dataset_object_tags |-> {}]

Idle ==
    [op |-> "none", pc |-> "idle", file_guid |-> 0, sub_guid |-> 0,
     name |-> "", data |-> <<>>, pos |-> 0, sha1 |-> NoDigest, tags |-> <<>>,
     key |-> NoKey, label |-> "", polygon |-> NoText,
     search_tags |-> NoSearch, limit |-> 0, offset |-> 0,
     session |-> NoSession,
     status |-> 0, detail |-> "", ret |-> 0, body |-> <<>>, nodes |-> <<>>]

\* a finished request keeps what the client sees: the request it sent and
\* the response; the handler's locals are gone and its session is closed,
\* which discards the writes it had not committed
Respond(r, code, detail) ==
    [Idle EXCEPT !.op = r.op, !.pc = "done", !.file_guid = r.file_guid,
                 !.sub_guid = r.sub_guid, !.data = r.data,
                 !.label = r.label, !.polygon = r.polygon,
                 !.search_tags = r.search_tags, !.limit = r.limit,
                 !.offset = r.offset,
                 !.status = code, !.detail = detail,
                 !.ret = r.ret, !.body = r.body, !.nodes = r.nodes]

Free(p) == proc[p].pc \in {"idle", "done"}
\* a request is served by the lowest-numbered free worker
CanStart(p) ==
    /\ Free(p)
    /\ \A q \in Procs : q < p => ~Free(q)
    /\ calls < MaxCalls
CanFail == faults < MaxFaults

DatasetIds == {0} \cup {o[1] : o \in {u \in hist.uploaded : u[3] = "dataset"}}
ModelIds == {0} \cup {o[1] : o \in {u \in hist.uploaded : u[3] = "model"}}

----------------------------------------------------------------------------
(* Initial state *)

EmptyBucket == [k \in {} |-> <<>>]

Init ==
    /\ s3 = [dataset |-> EmptyBucket, mlmodel |-> EmptyBucket]
    /\ db = [dataset_objects |-> {}, dataset_object_tags |-> {},
             dataset_object_labels |-> {}, mlmodel_objects |-> {},
             mlmodel_object_tags |-> {}]
    /\ proc = [p \in Procs |-> Idle]
    /\ nextUid = 1
    /\ calls = 0
    /\ faults = 0
    /\ hist = [uploaded |-> {}, delStarted |-> {}, deleted |-> {}]
    /\ pin = NoText
    /\ pout = NoCall

----------------------------------------------------------------------------
(* Dataset Create: dataset_upload_file *)

Row(S) == CHOOSE o \in S : TRUE

\* the hash lookup result taken as "no such file"
file_found_never(file_result) == FALSE

\* len(file_result) > 0 and len(file_result[0]) > 0
file_found(file_result) == Cardinality(file_result) > 0

\* hash the stream, rewind it, look the hash up; reject a known hash
dataset_upload_file_lookup(p) ==
    /\ CanStart(p)
    /\ \E name \in Names, data \in Contents, tags \in TagLists :
        LET h == hash_loop(data, 0, sha1_new)
            digest == sha1_hexdigest(h.sha)
            r == [Idle EXCEPT !.op = "dataset_upload_file", !.name = name,
                              !.data = data, !.tags = tags,
                              !.pos = file_seek(h.pos, 0), !.sha1 = digest]
            file_result ==
                {o \in db.dataset_objects : o.file_hash_sha1 = digest}
        IN  proc' = [proc EXCEPT ![p] =
                IF file_found(file_result)
                THEN Respond(r, 400, "File already exists")
                ELSE [r EXCEPT !.pc = "upload"]]
    /\ calls' = calls + 1
    /\ UNCHANGED <<s3, db, nextUid, faults, hist, pin, pout>>

\* the key is generated and handed on, the blob write is left for later
dataset_upload_file_upload_deferred(p) ==
    /\ proc[p].op = "dataset_upload_file" /\ proc[p].pc = "upload"
    /\ proc' = [proc EXCEPT ![p].pc = "insert",
                            ![p].key = s3_object_name(nextUid, proc[p].name)]
    /\ nextUid' = nextUid + 1
    /\ UNCHANGED <<s3, db, calls, faults, hist, pin, pout>>

\* a blob write whose error is swallowed: the request goes on to its insert
\* with the key of a blob that was not written
dataset_upload_file_upload_swallowing(p) ==
    /\ proc[p].op = "dataset_upload_file" /\ proc[p].pc = "upload"
    /\ LET key == s3_object_name(nextUid, proc[p].name)
       IN  \/ /\ s3' = [s3 EXCEPT !.dataset =
                        upload_fileobj(@, key, proc[p].data, proc[p].pos)]
              /\ UNCHANGED faults
           \/ /\ CanFail
              /\ faults' = faults + 1
              /\ UNCHANGED s3
    /\ proc' = [proc EXCEPT ![p].pc = "insert",
                            ![p].key = s3_object_name(nextUid, proc[p].name)]
    /\ nextUid' = nextUid + 1
    /\ UNCHANGED <<db, calls, hist, pin, pout>>

\* generate the key and write the blob; a blob-store error ends the request
dataset_upload_file_upload(p) ==
    /\ proc[p].op = "dataset_upload_file" /\ proc[p].pc = "upload"
    /\ LET key == s3_object_name(nextUid, proc[p].name)
       IN  \/ /\ s3' = [s3 EXCEPT !.dataset =
                        upload_fileobj(@, key, proc[p].data, proc[p].pos)]
              /\ proc' = [proc EXCEPT ![p].pc = "insert", ![p].key = key]
              /\ nextUid' = nextUid + 1
              /\ UNCHANGED faults
           \/ /\ CanFail
              /\ faults' = faults + 1
              /\ proc' = [proc EXCEPT ![p] = Respond(@, 500, "S3 error")]
              /\ UNCHANGED <<s3, nextUid>>
    /\ UNCHANGED <<db, calls, hist, pin, pout>>

\* insert the object row and the initial tags, commit; a database error
\* closes the session without a commit
dataset_upload_file_insert(p) ==
    /\ proc[p].op = "dataset_upload_file" /\ proc[p].pc = "insert"
    /\ LET dso_id == nextUid
           n == Len(proc[p].tags)
           row == [id |-> dso_id, name |-> proc[p].name,
                   s3_object_name |-> proc[p].key,
                   file_hash_sha1 |-> proc[p].sha1]
           tagrows == {[id |-> nextUid + i, dataset_object_id |-> dso_id,
                        tag |-> proc[p].tags[i]] : i \in 1..n}
       IN  \/ /\ db' = [db EXCEPT !.dataset_objects = @ \cup {row},
                                  !.dataset_object_tags = @ \cup tagrows]
              /\ nextUid' = nextUid + 1 + n
              /\ proc' = [proc EXCEPT ![p] =
                            Respond([@ EXCEPT !.ret = dso_id], 200, "OK")]
              /\ hist' = [hist EXCEPT !.uploaded =
                            @ \cup {<<dso_id, proc[p].data, "dataset">>}]
              /\ UNCHANGED faults
           \/ /\ CanFail
              /\ faults' = faults + 1
              /\ proc' = [proc EXCEPT ![p] = Respond(@, 500, "DB error")]
              /\ UNCHANGED <<db, nextUid, hist>>
    /\ UNCHANGED <<s3, calls, pin, pout>>

----------------------------------------------------------------------------
(* Dataset Download: dataset_download_file *)

dataset_download_file_lookup(p) ==
    /\ CanStart(p)
    /\ \E g \in DatasetIds :
        LET r == [Idle EXCEPT !.op = "dataset_download_file",
                              !.file_guid = g]
            file_result == {o \in db.dataset_objects : o.id = g}
        IN  proc' = [proc EXCEPT ![p] =
                IF file_result = {}
                THEN Respond(r, 404, "File not found")
                ELSE [r EXCEPT !.pc = "get",
                               !.key = Row(file_result).s3_object_name]]
    /\ calls' = calls + 1
    /\ UNCHANGED <<s3, db, nextUid, faults, hist, pin, pout>>

\* a get_object that answers a missing key with an empty body
get_object_empty_for_missing(r, bucket) ==
    IF r.key \in DOMAIN bucket
    THEN Respond([r EXCEPT !.body = bucket[r.key]], 200, "OK")
    ELSE Respond(r, 200, "OK")

\* s3.get_object raises NoSuchKey for a missing key
get_object(r, bucket) ==
    IF r.key \in DOMAIN bucket
    THEN Respond([r EXCEPT !.body = bucket[r.key]], 200, "OK")
    ELSE Respond(r, 500, "NoSuchKey")

dataset_download_file_get(p) ==
    /\ proc[p].op = "dataset_download_file" /\ proc[p].pc = "get"
    /\ proc' = [proc EXCEPT ![p] = get_object(@, s3.dataset)]
    /\ UNCHANGED <<s3, db, nextUid, calls, faults, hist, pin, pout>>

----------------------------------------------------------------------------
(* Dataset Delete: dataset_delete_file *)

dataset_delete_file_lookup(p) ==
    /\ CanStart(p)
    /\ \E g \in DatasetIds :
        LET r == [Idle EXCEPT !.op = "dataset_delete_file", !.file_guid = g]
            file_result == {o \in db.dataset_objects : o.id = g}
        IN  /\ proc' = [proc EXCEPT ![p] =
                IF file_result = {}
                THEN Respond(r, 404, "File not found")
                ELSE [r EXCEPT !.pc = "s3delete",
                               !.key = Row(file_result).s3_object_name]]
            /\ hist' = [hist EXCEPT !.delStarted = @ \cup {g}]
    /\ calls' = calls + 1
    /\ UNCHANGED <<s3, db, nextUid, faults, pin, pout>>

\* a blob delete that raises for a key the bucket does not hold
dataset_delete_file_s3delete_strict(p) ==
    /\ proc[p].op = "dataset_delete_file" /\ proc[p].pc = "s3delete"
    /\ \/ /\ proc[p].key \in DOMAIN s3.dataset
          /\ s3' = [s3 EXCEPT !.dataset = delete_object(@, proc[p].key)]
          /\ proc' = [proc EXCEPT ![p].pc = "deltags"]
          /\ UNCHANGED faults
       \/ /\ proc[p].key \notin DOMAIN s3.dataset
          /\ proc' = [proc EXCEPT ![p] = Respond(@, 500, "NoSuchKey")]
          /\ UNCHANGED <<s3, faults>>
       \/ /\ CanFail
          /\ faults' = faults + 1
          /\ proc' = [proc EXCEPT ![p] = Respond(@, 500, "S3 error")]
          /\ UNCHANGED s3
    /\ UNCHANGED <<db, nextUid, calls, hist, pin, pout>>

\* a blob-store error that is swallowed: the Delete goes on to the rows
dataset_delete_file_s3delete_swallowing(p) ==
    /\ proc[p].op = "dataset_delete_file" /\ proc[p].pc = "s3delete"
    /\ \/ /\ s3' = [s3 EXCEPT !.dataset = delete_object(@, proc[p].key)]
          /\ UNCHANGED faults
       \/ /\ CanFail
          /\ faults' = faults + 1
          /\ UNCHANGED s3
    /\ proc' = [proc EXCEPT ![p].pc = "deltags"]
    /\ UNCHANGED <<db, nextUid, calls, hist, pin, pout>>

\* s3.delete_object and what follows a blob-store error
dataset_delete_file_s3delete(p) ==
    /\ proc[p].op = "dataset_delete_file" /\ proc[p].pc = "s3delete"
    /\ \/ /\ s3' = [s3 EXCEPT !.dataset = delete_object(@, proc[p].key)]
          /\ proc' = [proc EXCEPT ![p].pc = "deltags"]
          /\ UNCHANGED faults
       \/ /\ CanFail
          /\ faults' = faults + 1
          /\ proc' = [proc EXCEPT ![p] = Respond(@, 500, "S3 error")]
          /\ UNCHANGED s3
    /\ UNCHANGED <<db, nextUid, calls, hist, pin, pout>>

\* the child rows dataset_delete_file removes before the object row
dataset_delete_children(d, g) ==
    [d EXCEPT !.dataset_object_tags =
        {t \in @ : t.dataset_object_id # g}]

\* the Object row deleted where the Tag rows should be
dataset_delete_file_deltags_row_first(p) ==
    /\ proc[p].op = "dataset_delete_file" /\ proc[p].pc = "deltags"
    /\ db' = [db EXCEPT !.dataset_objects =
                {o \in @ : o.id # proc[p].file_guid}]
    /\ proc' = [proc EXCEPT ![p].pc = "delobj"]
    /\ UNCHANGED <<s3, nextUid, calls, faults, hist, pin, pout>>

\* the DELETE of the Tag rows and its commit
dataset_delete_file_deltags(p) ==
    /\ proc[p].op = "dataset_delete_file" /\ proc[p].pc = "deltags"
    /\ db' = dataset_delete_children(db, proc[p].file_guid)
    /\ proc' = [proc EXCEPT ![p].pc = "delobj"]
    /\ UNCHANGED <<s3, nextUid, calls, faults, hist, pin, pout>>

\* the final delete of dataset_delete_file left out
dataset_delete_object_skipped(d, g) == d

\* the object row dataset_delete_file removes last
dataset_delete_object(d, g) ==
    [d EXCEPT !.dataset_objects = {o \in @ : o.id # g}]

dataset_delete_file_delobj(p) ==
    /\ proc[p].op = "dataset_delete_file" /\ proc[p].pc = "delobj"
    /\ db' = dataset_delete_object(db, proc[p].file_guid)
    /\ proc' = [proc EXCEPT ![p] = Respond(@, 200, "OK")]
    /\ hist' = [hist EXCEPT !.deleted = @ \cup {proc[p].file_guid}]
    /\ UNCHANGED <<s3, nextUid, calls, faults, pin, pout>>

----------------------------------------------------------------------------
(* Dataset tags: dataset_file_add_tag, dataset_file_delete_tag *)

TagIds == {0} \cup {t.id : t \in db.dataset_object_tags}
LabelIds == {0} \cup {l.id : l \in db.dataset_object_labels}

\* DatasetObject.tags without the filter on the owning Object
dataset_tags_of_any(d, g) == d.dataset_object_tags

\* DatasetObject.tags and DatasetObject.labels
dataset_tags(d, g) == {t \in d.dataset_object_tags : t.dataset_object_id = g}
\* DatasetObject.labels without the filter on the owning Object
dataset_labels_of_any(d, g) == d.dataset_object_labels

dataset_labels(d, g) == {l \in d.dataset_object_labels : l.dataset_object_id = g}

dataset_file_add_tag_check(p) ==
    /\ CanStart(p)
    /\ \E g \in DatasetIds, tag \in TagVals :
        LET r == [Idle EXCEPT !.op = "dataset_file_add_tag",
                              !.file_guid = g, !.label = tag]
            file_result == {o \in db.dataset_objects : o.id = g}
        IN  proc' = [proc EXCEPT ![p] =
                IF file_result = {}
                THEN Respond(r, 404, "File not found")
                ELSE IF tag \in {t.tag : t \in dataset_tags(db, g)}
                THEN Respond(r, 400, "Tag already exists")
                ELSE [r EXCEPT !.pc = "insert"]]
    /\ calls' = calls + 1
    /\ UNCHANGED <<s3, db, nextUid, faults, hist, pin, pout>>

\* the insert of dataset_file_add_tag with the duplicate check repeated in
\* the transaction of the insert
dataset_file_add_tag_insert_rechecked(p) ==
    /\ proc[p].op = "dataset_file_add_tag" /\ proc[p].pc = "insert"
    /\ IF proc[p].label \in
            {t.tag : t \in dataset_tags(db, proc[p].file_guid)}
       THEN /\ proc' = [proc EXCEPT ![p] =
                            Respond(@, 400, "Tag already exists")]
            /\ UNCHANGED <<db, nextUid>>
       ELSE /\ db' = [db EXCEPT !.dataset_object_tags = @ \cup
                        {[id |-> nextUid,
                          dataset_object_id |-> proc[p].file_guid,
                          tag |-> proc[p].label]}]
            /\ proc' = [proc EXCEPT ![p] =
                            Respond([@ EXCEPT !.ret = nextUid], 200, "OK")]
            /\ nextUid' = nextUid + 1
    /\ UNCHANGED <<s3, calls, faults, hist, pin, pout>>

dataset_file_add_tag_insert(p) ==
    /\ proc[p].op = "dataset_file_add_tag" /\ proc[p].pc = "insert"
    /\ LET tag_guid == nextUid
       IN  /\ db' = [db EXCEPT !.dataset_object_tags = @ \cup
                        {[id |-> tag_guid,
                          dataset_object_id |-> proc[p].file_guid,
                          tag |-> proc[p].label]}]
           /\ proc' = [proc EXCEPT ![p] =
                        Respond([@ EXCEPT !.ret = tag_guid], 200, "OK")]
    /\ nextUid' = nextUid + 1
    /\ UNCHANGED <<s3, calls, faults, hist, pin, pout>>

dataset_file_delete_tag_check(p) ==
    /\ CanStart(p)
    /\ \E g \in DatasetIds, tag_guid \in TagIds :
        LET r == [Idle EXCEPT !.op = "dataset_file_delete_tag",
                              !.file_guid = g, !.sub_guid = tag_guid]
            file_result == {o \in db.dataset_objects : o.id = g}
            tag_result == {t \in dataset_tags(db, g) : t.id = tag_guid}
        IN  proc' = [proc EXCEPT ![p] =
                IF file_result = {}
                THEN Respond(r, 404, "File not found")
                ELSE IF tag_result = {}
                THEN Respond(r, 404, "Tag not found")
                ELSE [r EXCEPT !.pc = "delete"]]
    /\ calls' = calls + 1
    /\ UNCHANGED <<s3, db, nextUid, faults, hist, pin, pout>>

\* the delete of dataset_file_delete_tag with the id left out of its WHERE
dataset_file_delete_tag_by_owner(p) ==
    /\ proc[p].op = "dataset_file_delete_tag" /\ proc[p].pc = "delete"
    /\ db' = [db EXCEPT !.dataset_object_tags =
                {t \in @ : t.dataset_object_id # proc[p].file_guid}]
    /\ proc' = [proc EXCEPT ![p] = Respond(@, 200, "OK")]
    /\ UNCHANGED <<s3, nextUid, calls, faults, hist, pin, pout>>

dataset_file_delete_tag_delete(p) ==
    /\ proc[p].op = "dataset_file_delete_tag" /\ proc[p].pc = "delete"
    /\ db' = [db EXCEPT !.dataset_object_tags =
                {t \in @ : ~(t.dataset_object_id = proc[p].file_guid
                             /\ t.id = proc[p].sub_guid)}]
    /\ proc' = [proc EXCEPT ![p] = Respond(@, 200, "OK")]
    /\ UNCHANGED <<s3, nextUid, calls, faults, hist, pin, pout>>

----------------------------------------------------------------------------
(* Dataset labels: dataset_file_add_label, dataset_file_update_label,      *)
(* dataset_file_delete_label                                               *)

LabelNames == {"crack"}

P(k1, k2) == <<<<k1, "0.1">>, <<k2, "0.9">>>>
\* polygon texts with a point that carries x, y and left, and with a point
\* that carries a further field
MixedPolyTexts ==
    { [t |-> "list", pts |-> <<P("x", "y") \o <<<<"left", "0.5">>>>>>],
      [t |-> "list", pts |-> <<P("x", "y") \o <<<<"begin_frame", "0">>>>>>] }

\* the polygon texts the clients of the label handlers send: points in
\* either encoding, incomplete points, a point with x, y and left, a point
\* with a further field, and texts that are not lists
PolyTexts ==
    { [t |-> "list", pts |-> <<P("x", "y")>>],
      [t |-> "list", pts |-> <<P("left", "top")>>],
      [t |-> "list", pts |-> <<P("x", "y"), <<<<"x", "0.1">>>>>>],
      [t |-> "list", pts |-> <<<<<<"left", "0.1">>>>, P("x", "y")>>],
      [t |-> "garbage", pts |-> <<>>],
      [t |-> "null", pts |-> <<>>],
      [t |-> "number", pts |-> <<>>],
      [t |-> "string", pts |-> <<>>],
      [t |-> "object", pts |-> <<>>] } \cup MixedPolyTexts

\* the duplicate test of dataset_file_add_label: the stored text against
\* the submitted text
same_polygon(stored, polygon) == stored = polygon

dataset_file_add_label_check(p) ==
    /\ CanStart(p)
    /\ \E g \in DatasetIds, label \in LabelNames, polygon \in PolyTexts :
        LET r == [Idle EXCEPT !.op = "dataset_file_add_label",
                              !.file_guid = g, !.label = label,
                              !.polygon = polygon]
            file_result == {o \in db.dataset_objects : o.id = g}
            parsed == parse_polygon(polygon)
        IN  proc' = [proc EXCEPT ![p] =
                IF file_result = {}
                THEN Respond(r, 404, "File not found")
                ELSE IF parsed.status # 200
                THEN Respond(r, parsed.status, parsed.detail)
                ELSE IF \E existing_label \in dataset_labels(db, g) :
                            /\ existing_label.label = label
                            /\ same_polygon(existing_label.polygon, polygon)
                THEN Respond(r, 400, "Label already exists")
                ELSE [r EXCEPT !.pc = "insert", !.nodes = parsed.nodes]]
    /\ calls' = calls + 1
    /\ UNCHANGED <<s3, db, nextUid, faults, hist, pin, pout>>

dataset_file_add_label_insert(p) ==
    /\ proc[p].op = "dataset_file_add_label" /\ proc[p].pc = "insert"
    /\ LET label_guid == nextUid
       IN  /\ db' = [db EXCEPT !.dataset_object_labels = @ \cup
                        {[id |-> label_guid,
                          dataset_object_id |-> proc[p].file_guid,
                          label |-> proc[p].label,
                          polygon |-> proc[p].polygon]}]
           /\ proc' = [proc EXCEPT ![p] =
                        Respond([@ EXCEPT !.ret = label_guid], 200, "OK")]
    /\ nextUid' = nextUid + 1
    /\ UNCHANGED <<s3, calls, faults, hist, pin, pout>>

dataset_file_delete_label_check(p) ==
    /\ CanStart(p)
    /\ \E g \in DatasetIds, label_guid \in LabelIds :
        LET r == [Idle EXCEPT !.op = "dataset_file_delete_label",
                              !.file_guid = g, !.sub_guid = label_guid]
            file_result == {o \in db.dataset_objects : o.id = g}
            label_result == {l \in dataset_labels(db, g) : l.id = label_guid}
        IN  proc' = [proc EXCEPT ![p] =
                IF file_result = {}
                THEN Respond(r, 404, "File not found")
                ELSE IF label_result = {}
                THEN Respond(r, 404, "Label not found")
                ELSE [r EXCEPT !.pc = "delete"]]
    /\ calls' = calls + 1
    /\ UNCHANGED <<s3, db, nextUid, faults, hist, pin, pout>>

dataset_file_delete_label_delete(p) ==
    /\ proc[p].op = "dataset_file_delete_label" /\ proc[p].pc = "delete"
    /\ db' = [db EXCEPT !.dataset_object_labels =
                {l \in @ : ~(l.dataset_object_id = proc[p].file_guid
                             /\ l.id = proc[p].sub_guid)}]
    /\ proc' = [proc EXCEPT ![p] = Respond(@, 200, "OK")]
    /\ UNCHANGED <<s3, nextUid, calls, faults, hist, pin, pout>>

dataset_file_update_label_check(p) ==
    /\ CanStart(p)
    /\ \E g \in DatasetIds, label_guid \in LabelIds,
          label \in LabelNames, polygon \in PolyTexts :
        LET r == [Idle EXCEPT !.op = "dataset_file_update_label",
                              !.file_guid = g, !.sub_guid = label_guid,
                              !.label = label, !.polygon = polygon]
            file_result == {o \in db.dataset_objects : o.id = g}
            label_result == {l \in dataset_labels(db, g) : l.id = label_guid}
            parsed == parse_polygon(polygon)
        IN  proc' = [proc EXCEPT ![p] =
                IF file_result = {}
                THEN Respond(r, 404, "File not found")
                ELSE IF label_result = {}
                THEN Respond(r, 404, "Label not found")
                ELSE IF parsed.status # 200
                THEN Respond(r, parsed.status, parsed.detail)
                ELSE [r EXCEPT !.pc = "update"]]
    /\ calls' = calls + 1
    /\ UNCHANGED <<s3, db, nextUid, faults, hist, pin, pout>>

\* the UPDATE of dataset_file_update_label with the id left out of its
\* WHERE
dataset_file_update_label_by_owner(p) ==
    /\ proc[p].op = "dataset_file_update_label" /\ proc[p].pc = "update"
    /\ db' = [db EXCEPT !.dataset_object_labels =
                {IF l.dataset_object_id = proc[p].file_guid
                 THEN [l EXCEPT !.label = proc[p].label,
                                !.polygon = proc[p].polygon]
                 ELSE l : l \in @}]
    /\ proc' = [proc EXCEPT ![p] = Respond(@, 200, "OK")]
    /\ UNCHANGED <<s3, nextUid, calls, faults, hist, pin, pout>>

dataset_file_update_label_update(p) ==
    /\ proc[p].op = "dataset_file_update_label" /\ proc[p].pc = "update"
    /\ db' = [db EXCEPT !.dataset_object_labels =
                {IF l.dataset_object_id = proc[p].file_guid
                    /\ l.id = proc[p].sub_guid
                 THEN [l EXCEPT !.label = proc[p].label,
                                !.polygon = proc[p].polygon]
                 ELSE l : l \in @}]
    /\ proc' = [proc EXCEPT ![p] = Respond(@, 200, "OK")]
    /\ UNCHANGED <<s3, nextUid, calls, faults, hist, pin, pout>>

----------------------------------------------------------------------------
(* Model Create, Download, Delete: model_upload_file, model_download_file, *)
(* model_delete_file                                                       *)

\* no hashing and no lookup: the stream is written from its start
model_upload_file_upload(p) ==
    /\ CanStart(p)
    /\ \E name \in Names, data \in Contents, tags \in TagLists :
        LET r == [Idle EXCEPT !.op = "model_upload_file", !.name = name,
                              !.data = data, !.tags = tags]
            key == s3_object_name(nextUid, name)
        IN  \/ /\ s3' = [s3 EXCEPT !.mlmodel =
                            upload_fileobj(@, key, r.data, r.pos)]
               /\ proc' = [proc EXCEPT ![p] =
                            [r EXCEPT !.pc = "insert", !.key = key]]
               /\ nextUid' = nextUid + 1
               /\ UNCHANGED faults
            \/ /\ CanFail
               /\ faults' = faults + 1
               /\ proc' = [proc EXCEPT ![p] = Respond(r, 500, "S3 error")]
               /\ UNCHANGED <<s3, nextUid>>
    /\ calls' = calls + 1
    /\ UNCHANGED <<db, hist, pin, pout>>

model_upload_file_insert(p) ==
    /\ proc[p].op = "model_upload_file" /\ proc[p].pc = "insert"
    /\ LET mo_id == nextUid
           n == Len(proc[p].tags)
           row == [id |-> mo_id, name |-> proc[p].name,
                   s3_object_name |-> proc[p].key]
           tagrows == {[id |-> nextUid + i, mlmodel_object_id |-> mo_id,
                        tag |-> proc[p].tags[i]] : i \in 1..n}
       IN  \/ /\ db' = [db EXCEPT !.mlmodel_objects = @ \cup {row},
                                  !.mlmodel_object_tags = @ \cup tagrows]
              /\ nextUid' = nextUid + 1 + n
              /\ proc' = [proc EXCEPT ![p] =
                            Respond([@ EXCEPT !.ret = mo_id], 200, "OK")]
              /\ hist' = [hist EXCEPT !.uploaded =
                            @ \cup {<<mo_id, proc[p].data, "model">>}]
              /\ UNCHANGED faults
           \/ /\ CanFail
              /\ faults' = faults + 1
              /\ proc' = [proc EXCEPT ![p] = Respond(@, 500, "DB error")]
              /\ UNCHANGED <<db, nextUid, hist>>
    /\ UNCHANGED <<s3, calls, pin, pout>>

model_download_file_lookup(p) ==
    /\ CanStart(p)
    /\ \E g \in ModelIds :
        LET r == [Idle EXCEPT !.op = "model_download_file", !.file_guid = g]
            file_result == {o \in db.mlmodel_objects : o.id = g}
        IN  proc' = [proc EXCEPT ![p] =
                IF file_result = {}
                THEN Respond(r, 404, "File not found")
                ELSE [r EXCEPT !.pc = "get",
                               !.key = Row(file_result).s3_object_name]]
    /\ calls' = calls + 1
    /\ UNCHANGED <<s3, db, nextUid, faults, hist, pin, pout>>

model_download_file_get(p) ==
    /\ proc[p].op = "model_download_file" /\ proc[p].pc = "get"
    /\ proc' = [proc EXCEPT ![p] = get_object(@, s3.mlmodel)]
    /\ UNCHANGED <<s3, db, nextUid, calls, faults, hist, pin, pout>>

model_delete_file_lookup(p) ==
    /\ CanStart(p)
    /\ \E g \in ModelIds :
        LET r == [Idle EXCEPT !.op = "model_delete_file", !.file_guid = g]
            file_result == {o \in db.mlmodel_objects : o.id = g}
        IN  /\ proc' = [proc EXCEPT ![p] =
                IF file_result = {}
                THEN Respond(r, 404, "File not found")
                ELSE [r EXCEPT !.pc = "s3delete",
                               !.key = Row(file_result).s3_object_name]]
            /\ hist' = [hist EXCEPT !.delStarted = @ \cup {g}]
    /\ calls' = calls + 1
    /\ UNCHANGED <<s3, db, nextUid, faults, pin, pout>>

model_delete_file_s3delete(p) ==
    /\ proc[p].op = "model_delete_file" /\ proc[p].pc = "s3delete"
    /\ \/ /\ s3' = [s3 EXCEPT !.mlmodel = delete_object(@, proc[p].key)]
          /\ proc' = [proc EXCEPT ![p].pc = "deltags"]
          /\ UNCHANGED faults
       \/ /\ CanFail
          /\ faults' = faults + 1
          /\ proc' = [proc EXCEPT ![p] = Respond(@, 500, "S3 error")]
          /\ UNCHANGED s3
    /\ UNCHANGED <<db, nextUid, calls, hist, pin, pout>>

model_delete_children(d, g) ==
    [d EXCEPT !.mlmodel_object_tags =
        {t \in @ : t.mlmodel_object_id # g}]

model_delete_file_deltags(p) ==
    /\ proc[p].op = "model_delete_file" /\ proc[p].pc = "deltags"
    /\ db' = model_delete_children(db, proc[p].file_guid)
    /\ proc' = [proc EXCEPT ![p].pc = "delobj"]
    /\ UNCHANGED <<s3, nextUid, calls, faults, hist, pin, pout>>

model_delete_object(d, g) ==
    [d EXCEPT !.mlmodel_objects = {o \in @ : o.id # g}]

model_delete_file_delobj(p) ==
    /\ proc[p].op = "model_delete_file" /\ proc[p].pc = "delobj"
    /\ db' = model_delete_object(db, proc[p].file_guid)
    /\ proc' = [proc EXCEPT ![p] = Respond(@, 200, "OK")]
    /\ hist' = [hist EXCEPT !.deleted = @ \cup {proc[p].file_guid}]
    /\ UNCHANGED <<s3, nextUid, calls, faults, pin, pout>>

----------------------------------------------------------------------------
(* Specification of the request handlers *)

\* the Creates carry no initial tag here: initial tags are the subject of
\* the specifications of the tag handlers and of Create's inserts
Next ==
    \E p \in Procs :
        \/ dataset_upload_file_lookup(p) /\ proc'[p].tags = <<>>
        \/ dataset_upload_file_upload(p)
        \/ dataset_upload_file_insert(p)
        \/ dataset_download_file_lookup(p)
        \/ dataset_download_file_get(p)
        \/ dataset_delete_file_lookup(p)
        \/ dataset_delete_file_s3delete(p)
        \/ dataset_delete_file_deltags(p)
        \/ dataset_delete_file_delobj(p)
        \/ model_upload_file_upload(p) /\ proc'[p].tags = <<>>
        \/ model_upload_file_insert(p)
        \/ model_download_file_lookup(p)
        \/ model_download_file_get(p)
        \/ model_delete_file_lookup(p)
        \/ model_delete_file_s3delete(p)
        \/ model_delete_file_deltags(p)
        \/ model_delete_file_delobj(p)

Spec == Init /\ [][Next]_vars

----------------------------------------------------------------------------
(* Specification of the dataset handlers with tags and labels *)

DatasetNext(p) ==
    \/ dataset_upload_file_lookup(p)
    \/ dataset_upload_file_upload(p)
    \/ dataset_upload_file_insert(p)
    \/ dataset_delete_file_lookup(p)
    \/ dataset_delete_file_s3delete(p)
    \/ dataset_delete_file_deltags(p)
    \/ dataset_delete_file_delobj(p)
    \/ dataset_file_add_tag_check(p)
    \/ dataset_file_add_tag_insert(p)
    \/ dataset_file_delete_tag_check(p)
    \/ dataset_file_delete_tag_delete(p)
    \/ dataset_file_add_label_check(p)
    \/ dataset_file_add_label_insert(p)
    \/ dataset_file_delete_label_check(p)
    \/ dataset_file_delete_label_delete(p)
    \/ dataset_file_update_label_check(p)
    \/ dataset_file_update_label_update(p)

\* the polygon texts of the concurrent workers: a valid list, the lists
\* with an incomplete point, and the text that is not JSON
LabelPolyTexts ==
    {polygon \in PolyTexts :
        /\ polygon.t \in {"list", "garbage"}
        /\ polygon # [t |-> "list", pts |-> <<P("left", "top")>>]
        /\ polygon \notin MixedPolyTexts}

NextLabel ==
    \E p \in Procs :
        DatasetNext(p) /\ proc'[p].polygon \in {NoText} \cup LabelPolyTexts

SpecLabel == Init /\ [][NextLabel]_vars

\* the same handlers run one at a time: a single worker serves every request
\* to its end before it accepts the next
NextSeq == DatasetNext(1)

SpecSeq == Init /\ [][NextSeq]_vars

----------------------------------------------------------------------------
(* Specification of the polygon normalizers as pure functions: the input   *)
(* is drawn in the initial state and each action applies one function      *)

MaxPoints == 2

Tokens == {"0.1", "0.9", "null"}

\* points in the {x, y} encoding (members in either order) and in the
\* {left, top} encoding, and points that are in neither
KnownPoints ==
    {<<<<k[1], v1>>, <<k[2], v2>>>> :
        k \in {<<"x", "y">>, <<"y", "x">>, <<"left", "top">>},
        v1 \in Tokens, v2 \in Tokens}
OtherPoints ==
    { <<<<"x", "0.1">>>>,
      <<<<"top", "0.9">>>>,
      <<<<"x", "0.1">>, <<"left", "0.9">>, <<"y", "0.1">>>>,
      <<<<"x", "0.1">>, <<"y", "0.9">>, <<"begin_frame", "0.1">>>>,
      <<<<"x", "0.1">>, <<"y", "0.9">>, <<"x", "0.9">>>> }

RECURSIVE SeqsUpTo(_, _)
SeqsUpTo(S, n) ==
    IF n = 0 THEN {<<>>}
    ELSE LET shorter == SeqsUpTo(S, n - 1)
         IN  shorter \cup
             {Append(q, e) : q \in {r \in shorter : Len(r) = n - 1}, e \in S}

PolyInputs ==
    {[t |-> "list", pts |-> q] :
        q \in SeqsUpTo(KnownPoints \cup OtherPoints, MaxPoints)}
    \cup {[t |-> k, pts |-> <<>>] :
            k \in {"none", "garbage", "empty", "null", "number", "string",
                   "object"}}

\* the Python object a caller hands to clean_polygons: None, a str, or the
\* value the JSON text denotes
py_value(arg) ==
    CASE arg.t = "none" -> [t |-> "null", items |-> <<>>]
      [] arg.t \in {"garbage", "empty"} -> [t |-> "string", items |-> <<>>]
      [] OTHER -> json_loads(arg)

InitPoly ==
    /\ s3 = [dataset |-> EmptyBucket, mlmodel |-> EmptyBucket]
    /\ db = [dataset_objects |-> {}, dataset_object_tags |-> {},
             dataset_object_labels |-> {}, mlmodel_objects |-> {},
             mlmodel_object_tags |-> {}]
    /\ proc = [p \in Procs |-> Idle]
    /\ nextUid = 1
    /\ calls = 0
    /\ faults = 0
    /\ hist = [uploaded |-> {}, delStarted |-> {}, deleted |-> {}]
    /\ pin \in PolyInputs
    /\ pout = NoCall

call_polygon_string_to_json ==
    /\ pout' = [fn |-> "polygon_string_to_json",
                res |-> polygon_string_to_json(pin)]
    /\ UNCHANGED <<s3, db, proc, nextUid, calls, faults, hist, pin>>

call_clean_polygons ==
    /\ pout' = [fn |-> "clean_polygons",
                res |-> clean_polygons(py_value(pin))]
    /\ UNCHANGED <<s3, db, proc, nextUid, calls, faults, hist, pin>>

NextPoly ==
    \/ call_polygon_string_to_json
    \/ call_clean_polygons

SpecPoly == InitPoly /\ [][NextPoly]_vars

----------------------------------------------------------------------------
(* Model tags: model_file_add_tag, model_file_delete_tag *)

ModelTagIds == {0} \cup {t.id : t \in db.mlmodel_object_tags}

\* MLModelObject.tags without the filter on the owning Object
model_tags_of_any(d, g) == d.mlmodel_object_tags

\* MLModelObject.tags
model_tags(d, g) == {t \in d.mlmodel_object_tags : t.mlmodel_object_id = g}

\* no duplicate test: any value is inserted
model_file_add_tag_check(p) ==
    /\ CanStart(p)
    /\ \E g \in ModelIds, tag \in TagVals :
        LET r == [Idle EXCEPT !.op = "model_file_add_tag",
                              !.file_guid = g, !.label = tag]
            file_result == {o \in db.mlmodel_objects : o.id = g}
        IN  proc' = [proc EXCEPT ![p] =
                IF file_result = {}
                THEN Respond(r, 404, "File not found")
                ELSE [r EXCEPT !.pc = "insert"]]
    /\ calls' = calls + 1
    /\ UNCHANGED <<s3, db, nextUid, faults, hist, pin, pout>>

model_file_add_tag_insert(p) ==
    /\ proc[p].op = "model_file_add_tag" /\ proc[p].pc = "insert"
    /\ LET tag_guid == nextUid
       IN  /\ db' = [db EXCEPT !.mlmodel_object_tags = @ \cup
                        {[id |-> tag_guid,
                          mlmodel_object_id |-> proc[p].file_guid,
                          tag |-> proc[p].label]}]
           /\ proc' = [proc EXCEPT ![p] =
                        Respond([@ EXCEPT !.ret = tag_guid], 200, "OK")]
    /\ nextUid' = nextUid + 1
    /\ UNCHANGED <<s3, calls, faults, hist, pin, pout>>

model_file_delete_tag_check(p) ==
    /\ CanStart(p)
    /\ \E g \in ModelIds, tag_guid \in ModelTagIds :
        LET r == [Idle EXCEPT !.op = "model_file_delete_tag",
                              !.file_guid = g, !.sub_guid = tag_guid]
            file_result == {o \in db.mlmodel_objects : o.id = g}
            tag_result == {t \in model_tags(db, g) : t.id = tag_guid}
        IN  proc' = [proc EXCEPT ![p] =
                IF file_result = {}
                THEN Respond(r, 404, "File not found")
                ELSE IF tag_result = {}
                THEN Respond(r, 404, "Tag not found")
                ELSE [r EXCEPT !.pc = "delete"]]
    /\ calls' = calls + 1
    /\ UNCHANGED <<s3, db, nextUid, faults, hist, pin, pout>>

model_file_delete_tag_delete(p) ==
    /\ proc[p].op = "model_file_delete_tag" /\ proc[p].pc = "delete"
    /\ db' = [db EXCEPT !.mlmodel_object_tags =
                {t \in @ : ~(t.mlmodel_object_id = proc[p].file_guid
                             /\ t.id = proc[p].sub_guid)}]
    /\ proc' = [proc EXCEPT ![p] = Respond(@, 200, "OK")]
    /\ UNCHANGED <<s3, nextUid, calls, faults, hist, pin, pout>>

----------------------------------------------------------------------------
(* Dataset Details: dataset_file_details and DatasetObject.as_dict *)

\* the order of Python's < on the strings that occur as tag values and
\* label names (code point order)
py_str_key(str) ==
    CASE str = "a" -> 1
      [] str = "b" -> 2
      [] str = "crack" -> 3
      [] str = "dent" -> 4
      [] OTHER -> 0

\* the orders in which a SELECT without ORDER BY can return the rows S
Perms(S) ==
    {q \in [1..Cardinality(S) -> S] :
        \A i \in DOMAIN q : \A j \in DOMAIN q : i # j => q[i] # q[j]}

\* sorted(rows, key=lambda x: x["tag"]): the sort is stable, so rows with
\* equal keys stay in the order the query returned them, which is any order
sorted_by_tag(S) ==
    {q \in Perms(S) :
        \A i \in DOMAIN q : \A j \in DOMAIN q :
            i < j => py_str_key(q[i].tag) <= py_str_key(q[j].tag)}

\* sorted(rows, key=lambda x: x["label"])
sorted_by_label(S) ==
    {q \in Perms(S) :
        \A i \in DOMAIN q : \A j \in DOMAIN q :
            i < j => py_str_key(q[i].label) <= py_str_key(q[j].label)}

\* l[0].polygon or "[]"
polygon_or_empty_list(polygon) ==
    IF polygon.t \in {"none", "empty"}
    THEN [t |-> "list", pts |-> <<>>]
    ELSE polygon

\* DatasetObject.as_dict: the dicts it can return for Object row o
as_dict(d, o) ==
    {[id |-> o.id, name |-> o.name, s3_object_name |-> o.s3_object_name,
      file_hash_sha1 |-> o.file_hash_sha1, tags |-> ts, labels |-> ls] :
        ts \in sorted_by_tag({[tag_guid |-> t.id, tag |-> t.tag] :
                                t \in dataset_tags(d, o.id)}),
        ls \in sorted_by_label(
                {[label_guid |-> l.id, label |-> l.label,
                  polygon |-> polygon_string_to_json(
                                polygon_or_empty_list(l.polygon))] :
                    l \in dataset_labels(d, o.id)})}

\* the row is taken out of the query result before the result is tested:
\* for an id without a row the subscript of None raises TypeError
dataset_file_details(p) ==
    /\ CanStart(p)
    /\ \E g \in DatasetIds :
        LET r == [Idle EXCEPT !.op = "dataset_file_details", !.file_guid = g]
            file_result == {o \in db.dataset_objects : o.id = g}
        IN  IF file_result = {}
            THEN proc' = [proc EXCEPT ![p] = Respond(r, 500, "TypeError")]
            ELSE \E file_as_dict \in as_dict(db, Row(file_result)) :
                    proc' = [proc EXCEPT ![p] =
                        Respond([r EXCEPT !.body = file_as_dict], 200, "OK")]
    /\ calls' = calls + 1
    /\ UNCHANGED <<s3, db, nextUid, faults, hist, pin, pout>>

----------------------------------------------------------------------------
(* Specification of the tag, label and Details handlers on a populated     *)
(* store: the state after Creates, Add Tags and Add Labels have stored two *)
(* dataset Objects and two model Objects                                   *)

StoredHash(data) == sha1_hexdigest(hash_loop(data, 0, sha1_new).sha)
Poly1 == [t |-> "list", pts |-> <<P("x", "y")>>]
Poly2 == [t |-> "list", pts |-> <<P("left", "top")>>]

InitStored ==
    /\ s3 = [dataset |-> [k \in {<<1, "f.csv">>, <<6, "f.csv">>} |->
                            IF k[1] = 1 THEN <<1, 2>> ELSE <<2, 1, 1>>],
             mlmodel |-> [k \in {<<10, "f.csv">>, <<13, "f.csv">>} |->
                            <<1, 2>>]]
    /\ db = [dataset_objects |->
                {[id |-> 2, name |-> "f.csv",
                  s3_object_name |-> <<1, "f.csv">>,
                  file_hash_sha1 |-> StoredHash(<<1, 2>>)],
                 [id |-> 7, name |-> "f.csv",
                  s3_object_name |-> <<6, "f.csv">>,
                  file_hash_sha1 |-> StoredHash(<<2, 1, 1>>)]},
             dataset_object_tags |->
                {[id |-> 3, dataset_object_id |-> 2, tag |-> "b"],
                 [id |-> 8, dataset_object_id |-> 7, tag |-> "a"]},
             dataset_object_labels |->
                {[id |-> 4, dataset_object_id |-> 2, label |-> "dent",
                  polygon |-> Poly1],
                 [id |-> 5, dataset_object_id |-> 2, label |-> "crack",
                  polygon |-> Poly2],
                 [id |-> 9, dataset_object_id |-> 7, label |-> "crack",
                  polygon |-> Poly1]},
             mlmodel_objects |->
                {[id |-> 11, name |-> "f.csv",
                  s3_object_name |-> <<10, "f.csv">>],
                 [id |-> 14, name |-> "f.csv",
                  s3_object_name |-> <<13, "f.csv">>]},
             mlmodel_object_tags |->
                {[id |-> 12, mlmodel_object_id |-> 11, tag |-> "a"],
                 [id |-> 15, mlmodel_object_id |-> 14, tag |-> "a"]}]
    /\ proc = [p \in Procs |-> Idle]
    /\ nextUid = 16
    /\ calls = 0
    /\ faults = 0
    /\ hist = [uploaded |-> {<<2, <<1, 2>>, "dataset">>,
                             <<7, <<2, 1, 1>>, "dataset">>,
                             <<11, <<1, 2>>, "model">>,
                             <<14, <<1, 2>>, "model">>},
               delStarted |-> {}, deleted |-> {}]
    /\ pin = NoText
    /\ pout = NoCall

\* the handlers that address a Tag or a Label by id under an Object; the
\* Update Labels carry one polygon, a valid one
ScopedNext(p) ==
    \/ dataset_file_delete_tag_check(p)
    \/ dataset_file_delete_tag_delete(p)
    \/ dataset_file_delete_label_check(p)
    \/ dataset_file_delete_label_delete(p)
    \/ dataset_file_update_label_check(p) /\ proc'[p].polygon = Poly2
    \/ dataset_file_update_label_update(p)
    \/ model_file_add_tag_check(p)
    \/ model_file_add_tag_insert(p)
    \/ model_file_delete_tag_check(p)
    \/ model_file_delete_tag_delete(p)

\* one worker: each request runs to its end before the next is accepted
NextScoped == ScopedNext(1)

SpecScoped == InitStored /\ [][NextScoped]_vars

\* Details and the handlers that change what it shows
DetailsNext(p) ==
    \/ dataset_file_add_tag_check(p)
    \/ dataset_file_add_tag_insert(p)
    \/ dataset_file_delete_tag_check(p)
    \/ dataset_file_delete_tag_delete(p)
    \/ dataset_file_delete_label_check(p)
    \/ dataset_file_delete_label_delete(p)
    \/ dataset_file_details(p)

NextDetails == DetailsNext(1)

SpecDetails == InitStored /\ [][NextDetails]_vars

----------------------------------------------------------------------------
(* Dataset List: dataset_list_files *)

\* search_tags is a text: a sequence of characters, or absent.  limit and
\* offset are integers; 0 stands for 0 and for absent, which "if limit:"
\* and "if offset:" treat alike
SearchTexts ==
    {NoSearch} \cup
    {[t |-> "str", chars |-> q] :
        q \in {<<>>, <<"a">>, <<"b">>, <<"a", ",", "b">>, <<"b", ",", "a">>,
               <<"a", ",">>, <<"a", "b">>}}
Limits == {0, 1, 2}
Offsets == {0, 1}

\* the truth value Python gives a str or None
truthy(text) == text.t = "str" /\ text.chars # <<>>

\* str.split(","): the pieces between the commas, as character sequences
RECURSIVE split_from(_, _, _, _)
split_from(chars, i, piece, pieces) ==
    IF i > Len(chars) THEN Append(pieces, piece)
    ELSE IF chars[i] = ","
    THEN split_from(chars, i + 1, <<>>, Append(pieces, piece))
    ELSE split_from(chars, i + 1, Append(piece, chars[i]), pieces)

split(text) == split_from(text.chars, 1, <<>>, <<>>)

\* a piece as a string: tag values are single characters here, so a longer
\* piece is a string that is no tag value
py_str(piece) ==
    CASE piece = <<>> -> ""
      [] Len(piece) = 1 -> piece[1]
      [] OTHER -> "other"

\* frozenset(search_tags.split(",")) if search_tags else {}
search_tags_set(text) ==
    IF truthy(text)
    THEN {py_str(split(text)[i]) : i \in DOMAIN split(text)}
    ELSE {}

\* the test that skips a file: it is made when all tags of the filter are
\* on the file
tag_filter_hit_all(text, tags) ==
    truthy(text) /\ search_tags_set(text) \subseteq tags

\* search_tags and len(tags.intersection(search_tags_set)) > 0
tag_filter_hit(text, tags) ==
    truthy(text) /\ tags \cap search_tags_set(text) # {}

\* the order of ORDER BY name on the object names that occur
sql_name_key(name) ==
    CASE name = "a.csv" -> 1
      [] name = "b.csv" -> 2
      [] name = "f.csv" -> 3
      [] OTHER -> 0

\* select(DatasetObject).order_by("name"): rows with equal names come in
\* any order
order_by_name(S) ==
    {q \in Perms(S) :
        \A i \in DOMAIN q : \A j \in DOMAIN q :
            i < j => sql_name_key(q[i].name) <= sql_name_key(q[j].name)}

\* .limit(limit) and .offset(offset), each applied only when truthy
limit_offset(rows, limit, offset) ==
    LET first == offset + 1
        last == IF limit # 0 THEN Min(offset + limit, Len(rows))
                ELSE Len(rows)
    IN  SubSeq(rows, first, last)

\* file.as_dict(session=session) for each file of a list, in order
RECURSIVE as_dict_each(_, _)
as_dict_each(d, files) ==
    IF files = <<>> THEN {<<>>}
    ELSE {<<first>> \o rest :
            first \in as_dict(d, Head(files)),
            rest \in as_dict_each(d, Tail(files))}

\* one read transaction: count, ordered (and sliced) select, then the tag
\* filter over the selected rows
dataset_list_files(p) ==
    /\ CanStart(p)
    /\ \E ordered \in order_by_name(db.dataset_objects) :
        \E text \in SearchTexts, limit \in Limits, offset \in Offsets :
            LET r == [Idle EXCEPT !.op = "dataset_list_files",
                                  !.search_tags = text, !.limit = limit,
                                  !.offset = offset]
                total_files == Cardinality(db.dataset_objects)
                Keep(file) ==
                    ~tag_filter_hit(text,
                        {t.tag : t \in dataset_tags(db, file.id)})
                files_result == limit_offset(ordered, limit, offset)
                kept == SelectSeq(files_result, Keep)
            IN  \E files_list \in as_dict_each(db, kept) :
                    proc' = [proc EXCEPT ![p] =
                        Respond([r EXCEPT !.body =
                            [files |-> files_list,
                             count |-> Len(files_list),
                             total_count |-> total_files]], 200, "OK")]
    /\ calls' = calls + 1
    /\ UNCHANGED <<s3, db, nextUid, faults, hist, pin, pout>>

\* stores of three dataset Objects: the third Object's name and the tag
\* sets of the first two are drawn, the third Object has every tag
ListNames == {"a.csv", "b.csv"}
ListContents == [o \in {2, 5, 8} |->
                    CASE o = 2 -> <<1, 2>> [] o = 5 -> <<2, 1, 1>>
                      [] OTHER -> <<1>>]

InitList ==
    \E n3 \in ListNames, T2 \in SUBSET TagVals, T5 \in SUBSET TagVals :
        LET T == [o \in {2, 5, 8} |->
                    CASE o = 2 -> T2 [] o = 5 -> T5 [] OTHER -> TagVals]
            name == [o \in {2, 5, 8} |->
                        CASE o = 2 -> "b.csv" [] o = 5 -> "a.csv"
                          [] OTHER -> n3]
        IN  /\ s3 = [dataset |->
                        [k \in {<<o - 1, name[o]>> : o \in {2, 5, 8}} |->
                            ListContents[k[1] + 1]],
                     mlmodel |-> EmptyBucket]
            /\ db = [dataset_objects |->
                        {[id |-> o, name |-> name[o],
                          s3_object_name |-> <<o - 1, name[o]>>,
                          file_hash_sha1 |-> StoredHash(ListContents[o])] :
                            o \in {2, 5, 8}},
                     dataset_object_tags |->
                        {[id |-> x[1] + (IF x[2] = "a" THEN 1 ELSE 2),
                          dataset_object_id |-> x[1], tag |-> x[2]] :
                            x \in {y \in {2, 5, 8} \X TagVals :
                                        y[2] \in T[y[1]]}},
                     dataset_object_labels |-> {},
                     mlmodel_objects |-> {},
                     mlmodel_object_tags |-> {}]
            /\ hist = [uploaded |-> {<<o, ListContents[o], "dataset">> :
                                        o \in {2, 5, 8}},
                       delStarted |-> {}, deleted |-> {}]
    /\ proc = [p \in Procs |-> Idle]
    /\ nextUid = 11
    /\ calls = 0
    /\ faults = 0
    /\ pin = NoText
    /\ pout = NoCall

NextList == dataset_list_files(1)

SpecList == InitList /\ [][NextList]_vars

\* Update Label against Delete Label, served by concurrent workers
UpdateNext(p) ==
    \/ dataset_file_update_label_check(p)
    \/ dataset_file_update_label_update(p)
    \/ dataset_file_delete_label_check(p)
    \/ dataset_file_delete_label_delete(p)

\* the Update Labels carry the polygon texts with points of one encoding
NextUpdate ==
    \E p \in Procs : UpdateNext(p) /\ proc'[p].polygon \notin MixedPolyTexts

\* the state after one Create and two Add Labels
InitLabelled ==
    /\ s3 = [dataset |-> [k \in {<<1, "f.csv">>} |-> <<1, 2>>],
             mlmodel |-> EmptyBucket]
    /\ db = [dataset_objects |->
                {[id |-> 2, name |-> "f.csv",
                  s3_object_name |-> <<1, "f.csv">>,
                  file_hash_sha1 |-> StoredHash(<<1, 2>>)]},
             dataset_object_tags |->
                {[id |-> 3, dataset_object_id |-> 2, tag |-> "a"]},
             dataset_object_labels |->
                {[id |-> 4, dataset_object_id |-> 2, label |-> "dent",
                  polygon |-> Poly1],
                 [id |-> 5, dataset_object_id |-> 2, label |-> "crack",
                  polygon |-> Poly2]},
             mlmodel_objects |-> {},
             mlmodel_object_tags |-> {}]
    /\ proc = [p \in Procs |-> Idle]
    /\ nextUid = 6
    /\ calls = 0
    /\ faults = 0
    /\ hist = [uploaded |-> {<<2, <<1, 2>>, "dataset">>},
               delStarted |-> {}, deleted |-> {}]
    /\ pin = NoText
    /\ pout = NoCall

SpecUpdate == InitLabelled /\ [][NextUpdate]_vars

\* Add Label, Update Label and Delete Label on the labelled Object, run one
\* at a time by a single worker
NextLabelSeq ==
    \/ dataset_file_add_label_check(1)
    \/ dataset_file_add_label_insert(1)
    \/ dataset_file_update_label_check(1)
    \/ dataset_file_update_label_update(1)
    \/ dataset_file_delete_label_check(1)
    \/ dataset_file_delete_label_delete(1)

SpecLabelSeq == InitLabelled /\ [][NextLabelSeq]_vars

\* Add Label and Details on the labelled Object, run one at a time
NextShown ==
    \/ dataset_file_add_label_check(1)
    \/ dataset_file_add_label_insert(1)
    \/ dataset_file_details(1)

SpecShown == InitLabelled /\ [][NextShown]_vars

----------------------------------------------------------------------------
(* Authentication: authenticate_user and APICredentials                    *)
(*                                                                         *)
(* Every handler depends on authenticate_user, which FastAPI runs before   *)
(* the handler body and on the same session.  Credentials are the content  *)
(* of the Authorization header: absent, or a user name and a password,     *)
(* each a sequence of characters.                                          *)

\* os.environ["SECRET_KEY"]
SECRET_KEY == <<"K">>

\* hashlib.sha256(...).hexdigest(): an injective image of the hashed text
sha256_hexdigest(text) == [alg |-> "sha256", of |-> text]

\* APICredentials.hash_password
hash_password(password, salt) ==
    LET salted_password == password \o salt \o SECRET_KEY
    IN  sha256_hexdigest(salted_password)

\* a password test that accepts every password
validate_password_any(user, password) == TRUE

\* APICredentials.validate_password
validate_password(user, password) ==
    hash_password(password, user.salt) = user.api_secret

\* HTTPBasic() followed by authenticate_user: the response that ends the
\* request, or 200
authenticate_user(d, credentials) ==
    LET valid_users == {u \in d.api_credentials :
                            u.api_key = credentials.username}
    IN  IF credentials.t = "none"
        THEN [status |-> 401, detail |-> "Not authenticated"]
        ELSE IF Cardinality(valid_users) = 0 \/ Cardinality(valid_users) > 1
        THEN [status |-> 401, detail |-> "Incorrect username or password"]
        ELSE IF ~validate_password(Row(valid_users), credentials.password)
        THEN [status |-> 401, detail |-> "Incorrect username or password"]
        ELSE [status |-> 200, detail |-> "OK"]

NoCredentials == [t |-> "none", username |-> <<>>, password |-> <<>>]
Basic(username, password) ==
    [t |-> "basic", username |-> username, password |-> password]

\* the credential records: two API keys, each with its salt and the hash
\* of its secret
ApiCredentials ==
    {[api_key |-> <<"k", "1">>, salt |-> <<"s">>,
      api_secret |-> hash_password(<<"p">>, <<"s">>)],
     [api_key |-> <<"k", "2">>, salt |-> <<"t">>,
      api_secret |-> hash_password(<<"q">>, <<"t">>)]}

\* what clients send: nothing, a key with its secret, a key with the
\* secret of the other key, a key with its secret followed by its salt,
\* an unknown key
CredentialInputs ==
    {NoCredentials,
     Basic(<<"k", "1">>, <<"p">>),
     Basic(<<"k", "1">>, <<"q">>),
     Basic(<<"k", "1">>, <<"p", "s">>),
     Basic(<<"k", "3">>, <<"p">>)}

Operations ==
    {"dataset_upload_file", "dataset_download_file", "dataset_delete_file",
     "dataset_file_add_tag", "dataset_file_delete_tag",
     "dataset_file_add_label", "dataset_file_delete_label",
     "dataset_file_update_label", "dataset_file_details",
     "dataset_list_files", "model_upload_file", "model_download_file",
     "model_delete_file", "model_file_add_tag", "model_file_delete_tag"}

InitAuth ==
    /\ s3 = [dataset |-> EmptyBucket, mlmodel |-> EmptyBucket]
    /\ db = [dataset_objects |-> {}, dataset_object_tags |-> {},
             dataset_object_labels |-> {}, mlmodel_objects |-> {},
             mlmodel_object_tags |-> {}, api_credentials |-> ApiCredentials]
    /\ proc = [p \in Procs |-> Idle]
    /\ nextUid = 1
    /\ calls = 0
    /\ faults = 0
    /\ hist = [uploaded |-> {}, delStarted |-> {}, deleted |-> {}]
    /\ pin = NoCredentials
    /\ pout = NoCall

\* the next request arrives with its Authorization header
receive_credentials ==
    /\ \E p \in Procs : CanStart(p)
    /\ pin' \in CredentialInputs \ {pin}
    /\ UNCHANGED <<s3, db, proc, nextUid, calls, faults, hist, pout>>

\* the dependency raises: the handler body is not entered
unauthorized(p) ==
    /\ CanStart(p)
    /\ authenticate_user(db, pin).status = 401
    /\ \E op \in Operations :
        proc' = [proc EXCEPT ![p] =
                    Respond([Idle EXCEPT !.op = op], 401,
                            authenticate_user(db, pin).detail)]
    /\ calls' = calls + 1
    /\ UNCHANGED <<s3, db, nextUid, faults, hist, pin, pout>>

\* the dependency returns the user: the handler body starts
authorized(p) ==
    /\ authenticate_user(db, pin).status = 200
    /\ \/ dataset_upload_file_lookup(p)
       \/ dataset_download_file_lookup(p)
       \/ dataset_delete_file_lookup(p)
       \/ dataset_file_add_tag_check(p)
       \/ dataset_file_delete_tag_check(p)
       \/ dataset_file_add_label_check(p)
       \/ dataset_file_delete_label_check(p)
       \/ dataset_file_update_label_check(p)
       \/ dataset_file_details(p)
       \/ dataset_list_files(p)
       \/ model_upload_file_upload(p)
       \/ model_download_file_lookup(p)
       \/ model_delete_file_lookup(p)
       \/ model_file_add_tag_check(p)
       \/ model_file_delete_tag_check(p)

\* the steps of a handler body after its first transaction
handler_step(p) ==
    \/ dataset_upload_file_upload(p)
    \/ dataset_upload_file_insert(p)
    \/ dataset_download_file_get(p)
    \/ dataset_delete_file_s3delete(p)
    \/ dataset_delete_file_deltags(p)
    \/ dataset_delete_file_delobj(p)
    \/ dataset_file_add_tag_insert(p)
    \/ dataset_file_delete_tag_delete(p)
    \/ dataset_file_add_label_insert(p)
    \/ dataset_file_delete_label_delete(p)
    \/ dataset_file_update_label_update(p)
    \/ model_upload_file_insert(p)
    \/ model_download_file_get(p)
    \/ model_delete_file_s3delete(p)
    \/ model_delete_file_deltags(p)
    \/ model_delete_file_delobj(p)
    \/ model_file_add_tag_insert(p)
    \/ model_file_delete_tag_delete(p)

\* the requests differ in their credentials and their operation; those
\* with a polygon carry one valid polygon, the Creates carry no initial
\* tag and the Lists carry no parameter
NextAuth ==
    \/ receive_credentials
    \/ unauthorized(1)
    \/ /\ authorized(1)
       /\ proc'[1].polygon \in {NoText, Poly1}
       /\ proc'[1].tags = <<>>
       /\ proc'[1].search_tags = NoSearch
       /\ proc'[1].limit = 0
       /\ proc'[1].offset = 0
    \/ handler_step(1)

SpecAuth == InitAuth /\ [][NextAuth]_vars

----------------------------------------------------------------------------
(* Dataset Create, statement by statement: the read loop, the rewind, the  *)
(* hash lookup, the blob write, and each insert of the transaction that    *)
(* the commit ends                                                         *)

\* the uploaded contents: empty, shorter than a chunk, one chunk, one chunk
\* and a byte, two chunks
StreamBytes == [i \in 1..(2 * ChunkSize) |-> i]
StreamContents ==
    {SubSeq(StreamBytes, 1, n) :
        n \in {0, 1, ChunkSize, ChunkSize + 1, 2 * ChunkSize}}
\* the initial tags of an upload: none, one, two values, one value twice
TagBatches == {<<>>, <<"a">>, <<"a", "b">>, <<"a", "a">>}

\* the request arrives: sha1 = hashlib.sha1(), the stream is at its start
dataset_upload_file_open(p) ==
    /\ CanStart(p)
    /\ \E name \in Names, data \in StreamContents, tags \in TagBatches :
        proc' = [proc EXCEPT ![p] =
            [Idle EXCEPT !.op = "dataset_upload_file", !.pc = "read",
                         !.name = name, !.data = data, !.tags = tags,
                         !.sha1 = sha1_hexdigest(sha1_new)]]
    /\ calls' = calls + 1
    /\ UNCHANGED <<s3, db, nextUid, faults, hist, pin, pout>>

\* a read loop that stops after its first chunk
dataset_upload_file_read_once(p) ==
    /\ proc[p].op = "dataset_upload_file" /\ proc[p].pc = "read"
    /\ LET chunk == file_read(proc[p].data, proc[p].pos, ChunkSize)
       IN  proc' = [proc EXCEPT
                ![p].pc = "seek",
                ![p].pos = @ + Len(chunk),
                ![p].sha1 = sha1_hexdigest(sha1_update(@.of, chunk))]
    /\ UNCHANGED <<s3, db, nextUid, calls, faults, hist, pin, pout>>

\* one iteration of the read loop: read a chunk, leave the loop when it is
\* empty, else feed it to the hasher
dataset_upload_file_read(p) ==
    /\ proc[p].op = "dataset_upload_file" /\ proc[p].pc = "read"
    /\ LET chunk == file_read(proc[p].data, proc[p].pos, ChunkSize)
       IN  proc' = [proc EXCEPT ![p] =
                IF chunk = <<>>
                THEN [@ EXCEPT !.pc = "seek"]
                ELSE [@ EXCEPT
                        !.pos = @ + Len(chunk),
                        !.sha1 = sha1_hexdigest(sha1_update(@.of, chunk))]]
    /\ UNCHANGED <<s3, db, nextUid, calls, faults, hist, pin, pout>>

\* file.file.seek(0)
dataset_upload_file_seek(p) ==
    /\ proc[p].op = "dataset_upload_file" /\ proc[p].pc = "seek"
    /\ proc' = [proc EXCEPT ![p].pc = "query",
                            ![p].pos = file_seek(@, 0)]
    /\ UNCHANGED <<s3, db, nextUid, calls, faults, hist, pin, pout>>

\* the hash lookup: a known hash ends the request
dataset_upload_file_query(p) ==
    /\ proc[p].op = "dataset_upload_file" /\ proc[p].pc = "query"
    /\ LET file_result ==
                {o \in db.dataset_objects : o.file_hash_sha1 = proc[p].sha1}
       IN  proc' = [proc EXCEPT ![p] =
                IF file_found(file_result)
                THEN Respond(@, 400, "File already exists")
                ELSE [@ EXCEPT !.pc = "upload"]]
    /\ UNCHANGED <<s3, db, nextUid, calls, faults, hist, pin, pout>>

\* session.execute(insert(DatasetObject)...): the row is pending in the
\* session; an error ends the request and closes the session
dataset_upload_file_insert_object(p) ==
    /\ proc[p].op = "dataset_upload_file" /\ proc[p].pc = "insert"
    /\ LET dso_id == nextUid
           row == [id |-> dso_id, name |-> proc[p].name,
                   s3_object_name |-> proc[p].key,
                   file_hash_sha1 |-> proc[p].sha1]
       IN  \/ /\ proc' = [proc EXCEPT
                    ![p].pc = "tags", ![p].ret = dso_id,
                    ![p].session.dataset_objects = @ \cup {row}]
              /\ nextUid' = nextUid + 1
              /\ UNCHANGED faults
           \/ /\ CanFail
              /\ faults' = faults + 1
              /\ proc' = [proc EXCEPT ![p] = Respond(@, 500, "DB error")]
              /\ UNCHANGED nextUid
    /\ UNCHANGED <<s3, db, calls, hist, pin, pout>>

\* the number of initial tags inserted so far
tags_inserted(r) == Cardinality(r.session.dataset_object_tags)

\* a tag insert on a connection that commits every statement: the pending
\* rows and the tag row are in the tables at once
dataset_upload_file_insert_tag_autocommit(p) ==
    /\ proc[p].op = "dataset_upload_file" /\ proc[p].pc = "tags"
    /\ tags_inserted(proc[p]) < Len(proc[p].tags)
    /\ LET tagrow == [id |-> nextUid, dataset_object_id |-> proc[p].ret,
                      tag |-> proc[p].tags[tags_inserted(proc[p]) + 1]]
       IN  \/ /\ proc' = [proc EXCEPT
                    ![p].session.dataset_object_tags = @ \cup {tagrow}]
              /\ db' = [db EXCEPT
                    !.dataset_objects =
                        @ \cup proc[p].session.dataset_objects,
                    !.dataset_object_tags = @ \cup {tagrow}]
              /\ nextUid' = nextUid + 1
              /\ UNCHANGED faults
           \/ /\ CanFail
              /\ faults' = faults + 1
              /\ proc' = [proc EXCEPT ![p] = Respond(@, 500, "DB error")]
              /\ UNCHANGED <<db, nextUid>>
    /\ UNCHANGED <<s3, calls, hist, pin, pout>>

\* one iteration of "for tag in tags": the tag row is pending in the
\* session; an error ends the request and closes the session
dataset_upload_file_insert_tag(p) ==
    /\ proc[p].op = "dataset_upload_file" /\ proc[p].pc = "tags"
    /\ tags_inserted(proc[p]) < Len(proc[p].tags)
    /\ LET tagrow == [id |-> nextUid, dataset_object_id |-> proc[p].ret,
                      tag |-> proc[p].tags[tags_inserted(proc[p]) + 1]]
       IN  \/ /\ proc' = [proc EXCEPT
                    ![p].session.dataset_object_tags = @ \cup {tagrow}]
              /\ nextUid' = nextUid + 1
              /\ UNCHANGED faults
           \/ /\ CanFail
              /\ faults' = faults + 1
              /\ proc' = [proc EXCEPT ![p] = Respond(@, 500, "DB error")]
              /\ UNCHANGED nextUid
    /\ UNCHANGED <<s3, db, calls, hist, pin, pout>>

\* session.commit(): the pending rows become rows of the tables together;
\* an error raised by the commit leaves the tables as they were
dataset_upload_file_commit(p) ==
    /\ proc[p].op = "dataset_upload_file" /\ proc[p].pc = "tags"
    /\ tags_inserted(proc[p]) = Len(proc[p].tags)
    /\ \/ /\ db' = [db EXCEPT
                !.dataset_objects = @ \cup proc[p].session.dataset_objects,
                !.dataset_object_tags =
                    @ \cup proc[p].session.dataset_object_tags]
          /\ proc' = [proc EXCEPT ![p] = Respond(@, 200, "OK")]
          /\ hist' = [hist EXCEPT !.uploaded =
                        @ \cup {<<proc[p].ret, proc[p].data, "dataset">>}]
          /\ UNCHANGED faults
       \/ /\ CanFail
          /\ faults' = faults + 1
          /\ proc' = [proc EXCEPT ![p] = Respond(@, 500, "DB error in commit")]
          /\ UNCHANGED <<db, hist>>
    /\ UNCHANGED <<s3, nextUid, calls, pin, pout>>

\* Creates of contents of every length, without initial tags
NextHash ==
    \/ dataset_upload_file_open(1) /\ proc'[1].tags = <<>>
    \/ dataset_upload_file_read(1)
    \/ dataset_upload_file_seek(1)
    \/ dataset_upload_file_query(1)
    \/ dataset_upload_file_upload(1)
    \/ dataset_upload_file_insert(1)

SpecHash == Init /\ [][NextHash]_vars

\* Creates of short contents with initial tags, insert by insert
NextBatch ==
    \/ dataset_upload_file_open(1) /\ Len(proc'[1].data) <= 1
    \/ dataset_upload_file_read(1)
    \/ dataset_upload_file_seek(1)
    \/ dataset_upload_file_query(1)
    \/ dataset_upload_file_upload(1)
    \/ dataset_upload_file_insert_object(1)
    \/ dataset_upload_file_insert_tag(1)
    \/ dataset_upload_file_commit(1)

SpecBatch == Init /\ [][NextBatch]_vars

\* Creates with initial tags, Add Tag and Delete Tag, run one at a time by
\* a single worker
NextTags ==
    \/ dataset_upload_file_open(1) /\ Len(proc'[1].data) <= 1
    \/ dataset_upload_file_read(1)
    \/ dataset_upload_file_seek(1)
    \/ dataset_upload_file_query(1)
    \/ dataset_upload_file_upload(1)
    \/ dataset_upload_file_insert_object(1)
    \/ dataset_upload_file_insert_tag(1)
    \/ dataset_upload_file_commit(1)
    \/ dataset_file_add_tag_check(1)
    \/ dataset_file_add_tag_insert(1)
    \/ dataset_file_delete_tag_check(1)
    \/ dataset_file_delete_tag_delete(1)

SpecTags == Init /\ [][NextTags]_vars

----------------------------------------------------------------------------
(* Delete with a failing database: each of the two transactions of Delete  *)
(* can raise, which ends the request with the earlier sub-steps done       *)

\* the DELETE of the Tag rows or its commit raises
dataset_delete_file_deltags_error(p) ==
    /\ proc[p].op = "dataset_delete_file" /\ proc[p].pc = "deltags"
    /\ CanFail
    /\ faults' = faults + 1
    /\ proc' = [proc EXCEPT ![p] = Respond(@, 500, "DB error")]
    /\ UNCHANGED <<s3, db, nextUid, calls, hist, pin, pout>>

\* the DELETE of the Object row or its commit raises
dataset_delete_file_delobj_error(p) ==
    /\ proc[p].op = "dataset_delete_file" /\ proc[p].pc = "delobj"
    /\ CanFail
    /\ faults' = faults + 1
    /\ proc' = [proc EXCEPT ![p] = Respond(@, 500, "DB error")]
    /\ UNCHANGED <<s3, db, nextUid, calls, hist, pin, pout>>

model_delete_file_deltags_error(p) ==
    /\ proc[p].op = "model_delete_file" /\ proc[p].pc = "deltags"
    /\ CanFail
    /\ faults' = faults + 1
    /\ proc' = [proc EXCEPT ![p] = Respond(@, 500, "DB error")]
    /\ UNCHANGED <<s3, db, nextUid, calls, hist, pin, pout>>

model_delete_file_delobj_error(p) ==
    /\ proc[p].op = "model_delete_file" /\ proc[p].pc = "delobj"
    /\ CanFail
    /\ faults' = faults + 1
    /\ proc' = [proc EXCEPT ![p] = Respond(@, 500, "DB error")]
    /\ UNCHANGED <<s3, db, nextUid, calls, hist, pin, pout>>

\* Deletes of the stored Objects by concurrent workers: a Delete that a
\* worker does not carry on is a Delete interrupted where it stands, and a
\* Delete of the same Object by the other worker is its retry
DeleteNext(p) ==
    \/ dataset_delete_file_lookup(p)
    \/ dataset_delete_file_s3delete(p)
    \/ dataset_delete_file_deltags(p)
    \/ dataset_delete_file_deltags_error(p)
    \/ dataset_delete_file_delobj(p)
    \/ dataset_delete_file_delobj_error(p)
    \/ model_delete_file_lookup(p)
    \/ model_delete_file_s3delete(p)
    \/ model_delete_file_deltags(p)
    \/ model_delete_file_deltags_error(p)
    \/ model_delete_file_delobj(p)
    \/ model_delete_file_delobj_error(p)

NextDelete == \E p \in Procs : DeleteNext(p)

SpecDelete == InitStored /\ [][NextDelete]_vars

\* Creates and Deletes against failing stores, on a store that holds an
\* Object with a Tag and two Labels
FailNext(p) ==
    \/ dataset_upload_file_lookup(p)
    \/ dataset_upload_file_upload(p)
    \/ dataset_upload_file_insert(p)
    \/ dataset_delete_file_lookup(p)
    \/ dataset_delete_file_s3delete(p)
    \/ dataset_delete_file_deltags(p)
    \/ dataset_delete_file_deltags_error(p)
    \/ dataset_delete_file_delobj(p)
    \/ dataset_delete_file_delobj_error(p)

NextFail == \E p \in Procs : FailNext(p)

SpecFail == InitLabelled /\ [][NextFail]_vars

----------------------------------------------------------------------------
(* The label handlers of main.py: the label schema with temporal fields.   *)
(* The Object lookup, the Label lookup and the write each open a session   *)
(* of their own; the polygon text is stored as it was sent                 *)

Frames == <<<<"begin_frame", "0">>, <<"end_frame", "0">>>>
\* the polygon texts the clients of these handlers send: points in both
\* encodings with both temporal fields, with one of them, with none, and
\* with a coordinate missing
FramePolyTexts ==
    { [t |-> "list", pts |-> <<P("left", "top") \o Frames>>],
      [t |-> "list", pts |-> <<P("x", "y") \o Frames>>],
      [t |-> "list", pts |-> <<P("left", "top") \o <<Frames[1]>>>>],
      [t |-> "list", pts |-> <<P("left", "top") \o <<Frames[2]>>>>],
      [t |-> "list", pts |-> <<P("left", "top")>>],
      [t |-> "list", pts |-> <<<<<<"left", "0.1">>>> \o Frames>>],
      [t |-> "list", pts |-> <<P("left", "top") \o Frames,
                               <<<<"top", "0.9">>>> \o Frames>>],
      [t |-> "garbage", pts |-> <<>>] }

\* the two tests of the validation loop on one node
node_has_left_top(node) == "left" \in DOMAIN node /\ "top" \in DOMAIN node
node_has_frames(node) ==
    "begin_frame" \in DOMAIN node /\ "end_frame" \in DOMAIN node

\* the parse and the validation loop of the label handlers of main.py: the
\* response they end with, or 200 and the parsed nodes; the first node
\* that fails a test decides the answer
main_parse_polygon(polygon) ==
    LET polygon_parsed == json_loads(polygon)
        bad == {i \in DOMAIN polygon_parsed.items :
                    \/ ~node_has_left_top(polygon_parsed.items[i])
                    \/ ~node_has_frames(polygon_parsed.items[i])}
        first == CHOOSE i \in bad : \A j \in bad : i <= j
    IN  CASE polygon_parsed.t = "JSONDecodeError" ->
                [status |-> 400, detail |-> "Invalid polygon",
                 nodes |-> <<>>]
          [] polygon_parsed.t \in {"TypeError", "null", "number"} ->
                [status |-> 500, detail |-> "TypeError", nodes |-> <<>>]
          [] OTHER ->
                IF bad = {}
                THEN [status |-> 200, detail |-> "OK",
                      nodes |-> polygon_parsed.items]
                ELSE IF ~node_has_left_top(polygon_parsed.items[first])
                THEN [status |-> 400,
                      detail |-> "Invalid polygon: missing left or top",
                      nodes |-> <<>>]
                ELSE [status |-> 400,
                      detail |->
                        "Invalid polygon: missing begin_frame or end_frame",
                      nodes |-> <<>>]

\* main.py dataset_file_add_label: the Object lookup and the validation
main_dataset_file_add_label_check(p) ==
    /\ CanStart(p)
    /\ \E g \in DatasetIds, label \in LabelNames, polygon \in FramePolyTexts :
        LET r == [Idle EXCEPT !.op = "main_dataset_file_add_label",
                              !.file_guid = g, !.label = label,
                              !.polygon = polygon]
            file_result == {o \in db.dataset_objects : o.id = g}
            parsed == main_parse_polygon(polygon)
        IN  proc' = [proc EXCEPT ![p] =
                IF file_result = {}
                THEN Respond(r, 404, "File not found")
                ELSE IF parsed.status # 200
                THEN Respond(r, parsed.status, parsed.detail)
                ELSE [r EXCEPT !.pc = "insert", !.nodes = parsed.nodes]]
    /\ calls' = calls + 1
    /\ UNCHANGED <<s3, db, nextUid, faults, hist, pin, pout>>

\* main.py dataset_file_add_label: the insert in a session of its own
main_dataset_file_add_label_insert(p) ==
    /\ proc[p].op = "main_dataset_file_add_label" /\ proc[p].pc = "insert"
    /\ LET label_guid == nextUid
       IN  /\ db' = [db EXCEPT !.dataset_object_labels = @ \cup
                        {[id |-> label_guid,
                          dataset_object_id |-> proc[p].file_guid,
                          label |-> proc[p].label,
                          polygon |-> proc[p].polygon]}]
           /\ proc' = [proc EXCEPT ![p] =
                        Respond([@ EXCEPT !.ret = label_guid], 200, "OK")]
    /\ nextUid' = nextUid + 1
    /\ UNCHANGED <<s3, calls, faults, hist, pin, pout>>

\* main.py dataset_file_update_label: the Object lookup
main_dataset_file_update_label_check(p) ==
    /\ CanStart(p)
    /\ \E g \in DatasetIds, label_guid \in LabelIds,
          label \in LabelNames, polygon \in FramePolyTexts :
        LET r == [Idle EXCEPT !.op = "main_dataset_file_update_label",
                              !.file_guid = g, !.sub_guid = label_guid,
                              !.label = label, !.polygon = polygon]
            file_result == {o \in db.dataset_objects : o.id = g}
        IN  proc' = [proc EXCEPT ![p] =
                IF file_result = {}
                THEN Respond(r, 404, "File not found")
                ELSE [r EXCEPT !.pc = "label"]]
    /\ calls' = calls + 1
    /\ UNCHANGED <<s3, db, nextUid, faults, hist, pin, pout>>

\* main.py dataset_file_update_label: the Label lookup and the validation
main_dataset_file_update_label_label(p) ==
    /\ proc[p].op = "main_dataset_file_update_label" /\ proc[p].pc = "label"
    /\ LET label_result ==
                {l \in db.dataset_object_labels :
                    /\ l.dataset_object_id = proc[p].file_guid
                    /\ l.id = proc[p].sub_guid}
           parsed == main_parse_polygon(proc[p].polygon)
       IN  proc' = [proc EXCEPT ![p] =
                IF label_result = {}
                THEN Respond(@, 404, "Label not found")
                ELSE IF parsed.status # 200
                THEN Respond(@, parsed.status, parsed.detail)
                ELSE [@ EXCEPT !.pc = "update"]]
    /\ UNCHANGED <<s3, db, nextUid, calls, faults, hist, pin, pout>>

\* main.py dataset_file_update_label: the UPDATE in a session of its own
main_dataset_file_update_label_update(p) ==
    /\ proc[p].op = "main_dataset_file_update_label" /\ proc[p].pc = "update"
    /\ db' = [db EXCEPT !.dataset_object_labels =
                {IF l.dataset_object_id = proc[p].file_guid
                    /\ l.id = proc[p].sub_guid
                 THEN [l EXCEPT !.label = proc[p].label,
                                !.polygon = proc[p].polygon]
                 ELSE l : l \in @}]
    /\ proc' = [proc EXCEPT ![p] = Respond(@, 200, "OK")]
    /\ UNCHANGED <<s3, nextUid, calls, faults, hist, pin, pout>>

\* the label handlers of main.py on Objects created without initial tags,
\* run by a single worker
NextFrames ==
    \/ dataset_upload_file_lookup(1) /\ proc'[1].tags = <<>>
    \/ dataset_upload_file_upload(1)
    \/ dataset_upload_file_insert(1)
    \/ main_dataset_file_add_label_check(1)
    \/ main_dataset_file_add_label_insert(1)
    \/ main_dataset_file_update_label_check(1)
    \/ main_dataset_file_update_label_label(1)
    \/ main_dataset_file_update_label_update(1)

SpecFrames == Init /\ [][NextFrames]_vars

----------------------------------------------------------------------------
(* Properties *)

\* worker p accepts a request for operation op in this step and runs the
\* handler up to the end of its first database transaction
Started(p, op) ==
    /\ CanStart(p)
    /\ calls' = calls + 1
    /\ proc'[p].op = op

Rejected(r, code, detail) ==
    r.pc = "done" /\ r.status = code /\ r.detail = detail

\* the content hash of an upload: the digest of its complete content
ContentHash(data) == sha1_hexdigest(data)

\* C1: a dataset Create whose hash lookup finds an Object row with the
\* content hash of the upload ends there with 400 'File already exists',
\* and neither the blob store nor any table changes
C1_DuplicateRejected ==
    [][\A p \in Procs :
        (/\ Started(p, "dataset_upload_file")
         /\ \E o \in db.dataset_objects :
                o.file_hash_sha1 = ContentHash(proc'[p].data))
        => /\ Rejected(proc'[p], 400, "File already exists")
           /\ s3' = s3
           /\ db' = db]_vars

C1_Witness ==
    \E p \in Procs :
        /\ proc[p].op = "dataset_upload_file"
        /\ Rejected(proc[p], 400, "File already exists")
        /\ \E o \in db.dataset_objects :
                o.file_hash_sha1 = ContentHash(proc[p].data)

\* C2: a finished Download of an Object that a Create returned and for
\* which no Delete has started succeeded and returned the uploaded bytes
C2_RoundTrip ==
    \A p \in Procs : \A u \in hist.uploaded :
        (/\ proc[p].op \in {"dataset_download_file", "model_download_file"}
         /\ proc[p].pc = "done"
         /\ proc[p].file_guid = u[1]
         /\ u[1] \notin hist.delStarted)
        => /\ proc[p].status = 200
           /\ proc[p].body = u[2]

C2_Witness ==
    \E p \in Procs : \E u \in hist.uploaded :
        /\ proc[p].op = "dataset_download_file"
        /\ proc[p].pc = "done"
        /\ proc[p].file_guid = u[1]
        /\ u[1] \notin hist.delStarted
        /\ u[2] = <<2, 1, 1>>
        /\ proc[p].body = <<2, 1, 1>>

\* C3: the dataset bucket never holds two keys with identical content
C3_NoTwoKeysSameContent ==
    \A k1 \in DOMAIN s3.dataset : \A k2 \in DOMAIN s3.dataset :
        k1 # k2 => s3.dataset[k1] # s3.dataset[k2]

\* C4: no two dataset Object rows carry the same content hash
C4_HashUnique ==
    \A o1 \in db.dataset_objects : \A o2 \in db.dataset_objects :
        o1.id # o2.id => o1.file_hash_sha1 # o2.file_hash_sha1

\* C5: when a dataset Delete of Object X returns success, no Tag row and no
\* Label row owned by X is left
C5_DeleteCascade ==
    [][\A p \in Procs :
        (/\ proc[p].op = "dataset_delete_file"
         /\ proc[p].pc # "done"
         /\ Rejected(proc'[p], 200, "OK"))
        => /\ dataset_tags(db', proc[p].file_guid) = {}
           /\ dataset_labels(db', proc[p].file_guid) = {}]_vars

\* the Object row of id g in the table the operation works on
HasRow(op, g) ==
    IF op \in {"dataset_download_file", "dataset_delete_file"}
    THEN \E o \in db.dataset_objects : o.id = g
    ELSE \E o \in db.mlmodel_objects : o.id = g

\* C6: a Download or Delete of X that starts after a Delete of X returned
\* success fails with 404 'File not found'; a Download or Delete of an id
\* without an Object row fails the same way and changes neither the blob
\* store nor any table
C6_GoneAfterDelete ==
    [][\A p \in Procs :
        \A op \in {"dataset_download_file", "dataset_delete_file",
                   "model_download_file", "model_delete_file"} :
            Started(p, op)
            => /\ proc'[p].file_guid \in hist.deleted
                    => Rejected(proc'[p], 404, "File not found")
               /\ ~HasRow(op, proc'[p].file_guid)
                    => /\ Rejected(proc'[p], 404, "File not found")
                       /\ s3' = s3
                       /\ db' = db]_vars

C6_Witness ==
    \E p \in Procs :
        /\ proc[p].op \in {"dataset_download_file", "dataset_delete_file"}
        /\ proc[p].file_guid \in hist.deleted
        /\ Rejected(proc[p], 404, "File not found")

\* the normalized form of a polygon text: left renamed to x, top renamed to
\* y, order kept
Normalized(polygon) ==
    LET parsed == json_loads(polygon)
    IN  [i \in DOMAIN parsed.items |-> rename_node(parsed.items[i])]

\* C7: Add Label on an existing Object that already has a Label with the
\* same name and the same normalized polygon is rejected with 'Label
\* already exists' and inserts nothing
C7_DuplicateLabelRejected ==
    [][\A p \in Procs :
        (/\ Started(p, "dataset_file_add_label")
         /\ \E o \in db.dataset_objects : o.id = proc'[p].file_guid
         /\ proc'[p].polygon.t = "list"
         /\ \E l \in dataset_labels(db, proc'[p].file_guid) :
                /\ l.label = proc'[p].label
                /\ l.polygon.t = "list"
                /\ Normalized(l.polygon) = Normalized(proc'[p].polygon))
        => /\ Rejected(proc'[p], 400, "Label already exists")
           /\ db' = db]_vars

\* a point as written has a horizontal (vertical) coordinate under either
\* of its two names
HasX(pt) == \E i \in DOMAIN pt : pt[i][1] \in {"x", "left"}
HasY(pt) == \E i \in DOMAIN pt : pt[i][1] \in {"y", "top"}

\* a polygon text that is not JSON, or a list with an incomplete point
BadPolygon(polygon) ==
    \/ polygon.t \in {"garbage", "empty"}
    \/ /\ polygon.t = "list"
       /\ \E i \in DOMAIN polygon.pts :
            ~(HasX(polygon.pts[i]) /\ HasY(polygon.pts[i]))

\* C8: Add Label on an existing Object, and Update Label on an existing
\* Label of an existing Object, with a polygon text that is not parseable
\* or has an incomplete point at any position, fail with a 400
\* invalid-polygon error and leave the Label table unchanged
C8_InvalidPolygonRejected ==
    [][\A p \in Procs :
        (/\ \E o \in db.dataset_objects : o.id = proc'[p].file_guid
         /\ BadPolygon(proc'[p].polygon)
         /\ \/ Started(p, "dataset_file_add_label")
            \/ /\ Started(p, "dataset_file_update_label")
               /\ \E l \in dataset_labels(db, proc'[p].file_guid) :
                        l.id = proc'[p].sub_guid)
        => /\ proc'[p].pc = "done"
           /\ proc'[p].status = 400
           /\ proc'[p].detail \in {"Invalid polygon",
                                   "Invalid polygon: missing x or y"}
           /\ db' = db]_vars

C8_Witness ==
    \E p \in Procs :
        /\ proc[p].op = "dataset_file_update_label"
        /\ proc[p].polygon.t = "list"
        /\ Len(proc[p].polygon.pts) = 2
        /\ HasX(proc[p].polygon.pts[2]) /\ ~HasY(proc[p].polygon.pts[2])
        /\ Rejected(proc[p], 400, "Invalid polygon: missing x or y")
        /\ dataset_labels(db, proc[p].file_guid) # {}

\* the keys a point is written with
PointKeys(pt) == {pt[i][1] : i \in DOMAIN pt}
KnownEncoding(pt) ==
    Len(pt) = 2 /\ PointKeys(pt) \in {{"x", "y"}, {"left", "top"}}

\* the coordinate a point is written with under one of the given names
Coord(pt, names) ==
    LET i == CHOOSE j \in DOMAIN pt : pt[j][1] \in names
    IN  IF pt[i][2] = "null" THEN None ELSE pt[i][2]

\* the same polygon text written in the other encoding
Recode(polygon, xname, yname) ==
    [polygon EXCEPT !.pts =
        [i \in DOMAIN polygon.pts |->
            [j \in DOMAIN polygon.pts[i] |->
                <<IF polygon.pts[i][j][1] \in {"x", "left"}
                  THEN xname ELSE yname,
                  polygon.pts[i][j][2]>>]]]

\* C9: on a list of points that are each {x, y} or {left, top},
\* clean_polygons and polygon_string_to_json return a list of the same
\* length whose i-th element is {x: xi, y: yi}, in input order; the same
\* coordinates in the other encoding normalize to the same result
C9_Normalization ==
    (/\ pout.fn \in {"clean_polygons", "polygon_string_to_json"}
     /\ pin.t = "list"
     /\ \A i \in DOMAIN pin.pts : KnownEncoding(pin.pts[i]))
    => /\ Len(pout.res) = Len(pin.pts)
       /\ \A i \in DOMAIN pin.pts :
            /\ DOMAIN pout.res[i] = {"x", "y"}
            /\ pout.res[i]["x"] = Coord(pin.pts[i], {"x", "left"})
            /\ pout.res[i]["y"] = Coord(pin.pts[i], {"y", "top"})
       /\ polygon_string_to_json(Recode(pin, "x", "y")) = pout.res
       /\ polygon_string_to_json(Recode(pin, "left", "top")) = pout.res

C9_Witness ==
    /\ pout.fn = "clean_polygons"
    /\ pin.t = "list"
    /\ Len(pin.pts) = 2
    /\ PointKeys(pin.pts[1]) = {"x", "y"}
    /\ PointKeys(pin.pts[2]) = {"left", "top"}
    /\ Len(pout.res) = 2
    /\ pout.res[1]["x"] = "0.9" /\ pout.res[1]["y"] = "0.1"
    /\ pout.res[2]["x"] = "0.1" /\ pout.res[2]["y"] = "0.9"

\* C10: polygon_string_to_json returns the empty sequence for None, the
\* empty string, text that is not JSON and JSON that is not a list;
\* clean_polygons returns it for None, a non-list value and the empty list
C10_DegenerateInputs ==
    /\ (/\ pout.fn = "polygon_string_to_json"
        /\ pin.t \in {"none", "empty", "garbage", "null", "number",
                      "string", "object"})
       => pout.res = <<>>
    /\ (/\ pout.fn = "clean_polygons"
        /\ \/ pin.t \in {"none", "empty", "garbage", "null", "number",
                         "string", "object"}
           \/ pin.t = "list" /\ pin.pts = <<>>)
       => pout.res = <<>>

C10_Witness ==
    /\ pout.fn = "polygon_string_to_json"
    /\ pin.t = "number"
    /\ pout.res = <<>>

\* a polygon text that is JSON but not a list
NonListPolygon(polygon) ==
    polygon.t \in {"null", "number", "string", "object"}

\* C11: Add Label on an existing Object, and Update Label on an existing
\* Label of an existing Object, with a polygon text that is valid JSON but
\* not a list (null, a number, a string, an object), fail with a 400
\* invalid-polygon error and store nothing
C11_NonListRejected ==
    [][\A p \in Procs :
        (/\ \E o \in db.dataset_objects : o.id = proc'[p].file_guid
         /\ NonListPolygon(proc'[p].polygon)
         /\ \/ Started(p, "dataset_file_add_label")
            \/ /\ Started(p, "dataset_file_update_label")
               /\ \E l \in dataset_labels(db, proc'[p].file_guid) :
                        l.id = proc'[p].sub_guid)
        => /\ proc'[p].pc = "done"
           /\ proc'[p].status = 400
           /\ proc'[p].detail \in {"Invalid polygon",
                                   "Invalid polygon: missing x or y"}
           /\ db' = db]_vars

\* every id a row of the metadata store carries
UsedIds(d) ==
    {o.id : o \in d.dataset_objects} \cup {t.id : t \in d.dataset_object_tags}
    \cup {l.id : l \in d.dataset_object_labels}
    \cup {o.id : o \in d.mlmodel_objects}
    \cup {t.id : t \in d.mlmodel_object_tags}

\* the Tag rows and the Label rows that name Object g as their owner
TagsOf(d, g) == {t \in d.dataset_object_tags : t.dataset_object_id = g}
LabelsOf(d, g) == {l \in d.dataset_object_labels : l.dataset_object_id = g}

\* C12: a dataset Add Tag on an existing Object that has a Tag with exactly
\* the requested value ends with 400 'Tag already exists' and changes no
\* row; otherwise it goes on to its insert, which adds exactly one Tag row
\* with a fresh id, the requested value and that owner, and returns the id
C12_AddTagDuplicateRejected ==
    [][\A p \in Procs :
        /\ (/\ Started(p, "dataset_file_add_tag")
            /\ \E o \in db.dataset_objects : o.id = proc'[p].file_guid)
           => /\ db' = db
              /\ IF \E t \in TagsOf(db, proc'[p].file_guid) :
                        t.tag = proc'[p].label
                 THEN Rejected(proc'[p], 400, "Tag already exists")
                 ELSE proc'[p].pc = "insert"
        /\ (/\ proc[p].op = "dataset_file_add_tag"
            /\ proc[p].pc = "insert"
            /\ proc'[p] # proc[p])
           => /\ Rejected(proc'[p], 200, "OK")
              /\ proc'[p].ret \notin UsedIds(db)
              /\ db' = [db EXCEPT !.dataset_object_tags = @ \cup
                        {[id |-> proc'[p].ret,
                          dataset_object_id |-> proc[p].file_guid,
                          tag |-> proc[p].label]}]
              /\ s3' = s3]_vars

C12_Witness ==
    \E p \in Procs :
        /\ proc[p].op = "dataset_file_add_tag"
        /\ proc[p].label = "b"
        /\ Rejected(proc[p], 400, "Tag already exists")
        /\ \E t \in TagsOf(db, proc[p].file_guid) : t.tag = "b"

OwnedRow(op, d, g, T) ==
    CASE op = "dataset_file_delete_tag" ->
            \E t \in d.dataset_object_tags :
                t.id = T /\ t.dataset_object_id = g
      [] op = "model_file_delete_tag" ->
            \E t \in d.mlmodel_object_tags :
                t.id = T /\ t.mlmodel_object_id = g
      [] OTHER ->
            \E l \in d.dataset_object_labels :
                l.id = T /\ l.dataset_object_id = g

ObjectRow(op, d, g) ==
    IF op = "model_file_delete_tag"
    THEN \E o \in d.mlmodel_objects : o.id = g
    ELSE \E o \in d.dataset_objects : o.id = g

SubNotFound(op) ==
    IF op \in {"dataset_file_delete_tag", "model_file_delete_tag"}
    THEN "Tag not found" ELSE "Label not found"

\* C14: Delete Tag, Delete Label and Update Label of (X, T) answer 404
\* 'File not found' when X has no Object row, and 404 'Tag not found'
\* ('Label not found') when X exists but owns no row with id T, also when
\* T is a row of another Object; in both cases no row and no blob changes
C14_NotFoundScoped ==
    [][\A p \in Procs :
        \A op \in {"dataset_file_delete_tag", "dataset_file_delete_label",
                   "dataset_file_update_label", "model_file_delete_tag"} :
            Started(p, op)
            => /\ ~ObjectRow(op, db, proc'[p].file_guid)
                    => /\ Rejected(proc'[p], 404, "File not found")
                       /\ db' = db
                       /\ s3' = s3
               /\ (/\ ObjectRow(op, db, proc'[p].file_guid)
                   /\ ~OwnedRow(op, db, proc'[p].file_guid,
                                proc'[p].sub_guid))
                    => /\ Rejected(proc'[p], 404, SubNotFound(op))
                       /\ db' = db
                       /\ s3' = s3]_vars

C14_Witness ==
    \E p \in Procs :
        /\ proc[p].op = "model_file_delete_tag"
        /\ Rejected(proc[p], 404, "Tag not found")
        /\ \E o \in db.mlmodel_objects : o.id = proc[p].file_guid
        /\ \E t \in db.mlmodel_object_tags :
                /\ t.id = proc[p].sub_guid
                /\ t.mlmodel_object_id # proc[p].file_guid
                /\ \E o \in db.mlmodel_objects : o.id = t.mlmodel_object_id

\* C15: a step in which Update Label returns success keeps the number of
\* Label rows, keeps the id and owner of every Label row, leaves every
\* Label row other than the addressed one as it was, and changes no Tag
\* row, no Object row and no blob; so does the step in which it is
\* accepted.  This covers an Update whose Label was deleted by a
\* concurrent Delete Label after Update's existence check
C15_UpdateInPlace ==
    [][\A p \in Procs :
        /\ Started(p, "dataset_file_update_label") => db' = db /\ s3' = s3
        /\ (/\ proc[p].op = "dataset_file_update_label"
            /\ proc[p].pc = "update"
            /\ Rejected(proc'[p], 200, "OK"))
           => /\ Cardinality(db'.dataset_object_labels)
                    = Cardinality(db.dataset_object_labels)
              /\ \A l \in db.dataset_object_labels :
                    \E l2 \in db'.dataset_object_labels :
                        /\ l2.id = l.id
                        /\ l2.dataset_object_id = l.dataset_object_id
                        /\ l.id # proc[p].sub_guid => l2 = l
              /\ db'.dataset_object_tags = db.dataset_object_tags
              /\ db'.dataset_objects = db.dataset_objects
              /\ db'.mlmodel_objects = db.mlmodel_objects
              /\ db'.mlmodel_object_tags = db.mlmodel_object_tags
              /\ s3' = s3]_vars

\* an Update Label and a Delete Label of the same Label that ran
\* concurrently and both returned success, while the Object keeps another
\* Label
C15_Witness ==
    \E p \in Procs : \E q \in Procs :
        /\ proc[p].op = "dataset_file_update_label"
        /\ Rejected(proc[p], 200, "OK")
        /\ proc[q].op = "dataset_file_delete_label"
        /\ Rejected(proc[q], 200, "OK")
        /\ proc[q].file_guid = proc[p].file_guid
        /\ proc[q].sub_guid = proc[p].sub_guid
        /\ \A l \in db.dataset_object_labels : l.id # proc[p].sub_guid
        /\ LabelsOf(db, proc[p].file_guid) # {}

\* the order of tag values and label names
StrLeq(a, b) ==
    \/ a = b
    \/ <<a, b>> \in {<<"a", "b">>, <<"crack", "dent">>}

\* C16: Details of an existing dataset Object X succeeds and returns
\* exactly the Tag rows and the Label rows owned by X at that moment, each
\* once, the tags in non-decreasing order of value and the labels in
\* non-decreasing order of name
C16_DetailsExact ==
    [][\A p \in Procs :
        (/\ Started(p, "dataset_file_details")
         /\ \E o \in db.dataset_objects : o.id = proc'[p].file_guid)
        => LET g == proc'[p].file_guid
               ts == proc'[p].body.tags
               ls == proc'[p].body.labels
           IN  /\ Rejected(proc'[p], 200, "OK")
               /\ proc'[p].body.id = g
               /\ Len(ts) = Cardinality(TagsOf(db, g))
               /\ {<<ts[i].tag_guid, ts[i].tag>> : i \in DOMAIN ts}
                    = {<<t.id, t.tag>> : t \in TagsOf(db, g)}
               /\ \A i \in DOMAIN ts : \A j \in DOMAIN ts :
                    i < j => StrLeq(ts[i].tag, ts[j].tag)
               /\ Len(ls) = Cardinality(LabelsOf(db, g))
               /\ {<<ls[i].label_guid, ls[i].label>> : i \in DOMAIN ls}
                    = {<<l.id, l.label>> : l \in LabelsOf(db, g)}
               /\ \A i \in DOMAIN ls : \A j \in DOMAIN ls :
                    i < j => StrLeq(ls[i].label, ls[j].label)
               /\ db' = db]_vars

\* a Details that shows a tag added by Add Tag, sorted before the older
\* tag, and no longer shows a label removed by Delete Label
C16_Witness ==
    \E p \in Procs :
        /\ proc[p].op = "dataset_file_details"
        /\ Rejected(proc[p], 200, "OK")
        /\ proc[p].file_guid = 2
        /\ Len(proc[p].body.tags) = 2
        /\ proc[p].body.tags[1].tag = "a"
        /\ proc[p].body.tags[1].tag_guid > proc[p].body.tags[2].tag_guid
        /\ Len(proc[p].body.labels) = 1
        /\ proc[p].body.labels[1].label_guid = 4

\* the order of object names
NameLeq(a, b) ==
    \/ a = b
    \/ <<a, b>> \in {<<"a.csv", "b.csv">>, <<"a.csv", "f.csv">>,
                     <<"b.csv", "f.csv">>}

\* the comma-separated texts that list the tags of a non-empty set S
RECURSIVE CommaJoined(_)
CommaJoined(q) ==
    IF Len(q) = 1 THEN q
    ELSE <<Head(q), ",">> \o CommaJoined(Tail(q))

Listings(S) ==
    {CommaJoined(q) :
        q \in {r \in SeqsUpTo(S, Cardinality(S)) :
                /\ Len(r) = Cardinality(S)
                /\ {r[i] : i \in DOMAIN r} = S}}

\* C17: List without limit and offset succeeds; given the tags of a
\* non-empty set S it returns exactly the Objects that have no tag in S,
\* given no search_tags it returns every Object; the files come once each,
\* in non-decreasing order of name, and count is their number
C17_ListFilter ==
    [][\A p \in Procs :
        (/\ Started(p, "dataset_list_files")
         /\ proc'[p].limit = 0
         /\ proc'[p].offset = 0)
        => LET files == proc'[p].body.files
               ids == {files[i].id : i \in DOMAIN files}
               text == proc'[p].search_tags
           IN  /\ Rejected(proc'[p], 200, "OK")
               /\ proc'[p].body.count = Len(files)
               /\ Len(files) = Cardinality(ids)
               /\ \A i \in DOMAIN files : \A j \in DOMAIN files :
                    i < j => NameLeq(files[i].name, files[j].name)
               /\ text.t = "none"
                    => ids = {o.id : o \in db.dataset_objects}
               /\ \A S \in SUBSET TagVals \ {{}} :
                    (text.t = "str" /\ text.chars \in Listings(S))
                    => ids = {o.id : o \in
                                {o2 \in db.dataset_objects :
                                    {t.tag : t \in TagsOf(db, o2.id)}
                                        \cap S = {}}}
               /\ db' = db]_vars

\* a List filtered by tag a over three Objects: the one tagged a is left
\* out and the other two come in name order, which is not their id order
C17_Witness ==
    \E p \in Procs :
        /\ proc[p].op = "dataset_list_files"
        /\ Rejected(proc[p], 200, "OK")
        /\ proc[p].search_tags = [t |-> "str", chars |-> <<"a">>]
        /\ proc[p].limit = 0 /\ proc[p].offset = 0
        /\ proc[p].body.total_count = 3
        /\ proc[p].body.count = 2
        /\ proc[p].body.files[1].id = 5
        /\ proc[p].body.files[2].id = 2
        /\ \E t \in TagsOf(db, 8) : t.tag = "a"

\* the salted hash of a secret
SaltedHash(secret, salt) == [alg |-> "sha256", of |-> secret \o salt \o <<"K">>]

\* exactly one credential record has the supplied key, and the salted hash
\* of the supplied secret is that record's stored hash
CredentialsValid(d, c) ==
    /\ c.t = "basic"
    /\ Cardinality({u \in d.api_credentials : u.api_key = c.username}) = 1
    /\ \A u \in d.api_credentials :
            u.api_key = c.username
            => SaltedHash(c.password, u.salt) = u.api_secret

\* C18: a request to any operation is authenticated only if its
\* credentials are valid; otherwise it is answered 401 and neither the
\* blob store nor any table changes
C18_AuthGate ==
    [][\A p \in Procs :
        (CanStart(p) /\ calls' = calls + 1)
        => /\ proc'[p].op \in Operations
           /\ IF CredentialsValid(db, pin)
              THEN proc'[p].status # 401
              ELSE /\ proc'[p].pc = "done"
                   /\ proc'[p].status = 401
                   /\ s3' = s3
                   /\ db' = db]_vars

\* a Delete sent with a known key and the secret of another key, answered
\* 401 while the store holds an Object
C18_Witness ==
    \E p \in Procs :
        /\ proc[p].op = "dataset_delete_file"
        /\ Rejected(proc[p], 401, "Incorrect username or password")
        /\ pin = Basic(<<"k", "1">>, <<"q">>)
        /\ db.dataset_objects # {}

\* no two Object rows of one kind have the same blob key
KeysDistinct ==
    /\ \A o1 \in db.dataset_objects : \A o2 \in db.dataset_objects :
            o1.id # o2.id => o1.s3_object_name # o2.s3_object_name
    /\ \A o1 \in db.mlmodel_objects : \A o2 \in db.mlmodel_objects :
            o1.id # o2.id => o1.s3_object_name # o2.s3_object_name

\* a step taken by a Delete of Object X leaves the blob of every other
\* Object row of that kind as it is
DeleteKeepsOtherBlobs ==
    \A p \in Procs :
        /\ (/\ proc[p].op = "dataset_delete_file"
            /\ proc[p].pc # "done"
            /\ proc'[p] # proc[p])
           => \A o \in db.dataset_objects :
                (/\ o.id # proc[p].file_guid
                 /\ o.s3_object_name \in DOMAIN s3.dataset)
                => /\ o.s3_object_name \in DOMAIN s3'.dataset
                   /\ s3'.dataset[o.s3_object_name]
                        = s3.dataset[o.s3_object_name]
        /\ (/\ proc[p].op = "model_delete_file"
            /\ proc[p].pc # "done"
            /\ proc'[p] # proc[p])
           => \A o \in db.mlmodel_objects :
                (/\ o.id # proc[p].file_guid
                 /\ o.s3_object_name \in DOMAIN s3.mlmodel)
                => /\ o.s3_object_name \in DOMAIN s3'.mlmodel
                   /\ s3'.mlmodel[o.s3_object_name]
                        = s3.mlmodel[o.s3_object_name]

\* C19: every step from the empty store leads to a state in which no two
\* Object rows of the same kind have the same blob key, also when they
\* were uploaded under the same file name, and no step of a Delete of one
\* Object removes or changes the blob another Object row points to
C19_KeysNeverCollide ==
    [][KeysDistinct' /\ DeleteKeepsOtherBlobs]_vars

\* a finished Delete of one Object while another Object uploaded under the
\* same file name still has its row and its blob
C19_Witness ==
    \E p \in Procs : \E o \in db.dataset_objects :
        /\ proc[p].op = "dataset_delete_file"
        /\ Rejected(proc[p], 200, "OK")
        /\ o.id # proc[p].file_guid
        /\ o.name = "f.csv"
        /\ o.s3_object_name[2] = "f.csv"
        /\ o.s3_object_name \in DOMAIN s3.dataset
        /\ \E u \in hist.uploaded :
                u[1] = o.id /\ s3.dataset[o.s3_object_name] = u[2]

\* every model Object that was created and whose Delete has not started
\* has its row, and its blob holds the uploaded content
ModelContentsStored ==
    \A u \in hist.uploaded :
        (u[3] = "model" /\ u[1] \notin hist.delStarted)
        => \E o \in db.mlmodel_objects :
                /\ o.id = u[1]
                /\ o.s3_object_name \in DOMAIN s3.mlmodel
                /\ s3.mlmodel[o.s3_object_name] = u[2]

\* a model Create is never rejected: it ends only with success or with a
\* failure of the blob store or the database, whatever the store holds;
\* its success adds one Object row with a new id and a new blob key
ModelCreateAlwaysStores ==
    \A p \in Procs :
        /\ Started(p, "model_upload_file")
           => \/ proc'[p].pc = "insert"
              \/ Rejected(proc'[p], 500, "S3 error")
        /\ (/\ proc[p].op = "model_upload_file"
            /\ proc[p].pc = "insert"
            /\ proc'[p].pc = "done")
           => \/ Rejected(proc'[p], 500, "DB error")
              \/ /\ Rejected(proc'[p], 200, "OK")
                 /\ \A o \in db.mlmodel_objects :
                        /\ o.id # proc'[p].ret
                        /\ o.s3_object_name # proc[p].key
                 /\ \E o \in db'.mlmodel_objects :
                        /\ o.id = proc'[p].ret
                        /\ o.s3_object_name = proc[p].key
                        /\ db'.mlmodel_objects = db.mlmodel_objects \cup {o}

\* C20: model Create has no content dedup: it is never rejected for what
\* the store already holds, each success adds a row with a new id and a
\* new blob key, and after every step the content of every created model
\* Object is stored under its key unless a Delete of it has started
C20_ModelNoDedup ==
    [][ModelContentsStored' /\ ModelCreateAlwaysStores]_vars

\* two model Objects created from the same bytes under the same file name,
\* with distinct ids and keys, and a Download of the later one that
\* returned those bytes
C20_Witness ==
    \E o1 \in db.mlmodel_objects : \E o2 \in db.mlmodel_objects :
        /\ o1.id < o2.id
        /\ o1.name = o2.name
        /\ o1.s3_object_name # o2.s3_object_name
        /\ <<o1.id, <<1, 2>>, "model">> \in hist.uploaded
        /\ <<o2.id, <<1, 2>>, "model">> \in hist.uploaded
        /\ s3.mlmodel[o1.s3_object_name] = <<1, 2>>
        /\ \E p \in Procs :
                /\ proc[p].op = "model_download_file"
                /\ proc[p].file_guid = o2.id
                /\ Rejected(proc[p], 200, "OK")
                /\ proc[p].body = <<1, 2>>

\* C21: Details of an id that has no dataset Object row ends with 404
\* 'File not found' and changes neither the blob store nor any table
C21_DetailsNotFound ==
    [][\A p \in Procs :
        (/\ Started(p, "dataset_file_details")
         /\ ~\E o \in db.dataset_objects : o.id = proc'[p].file_guid)
        => /\ Rejected(proc'[p], 404, "File not found")
           /\ db' = db
           /\ s3' = s3]_vars

\* the Object rows in non-decreasing order of name
InNameOrder(S) ==
    {q \in Perms(S) :
        \A i \in DOMAIN q : \A j \in DOMAIN q :
            i < j => NameLeq(q[i].name, q[j].name)}

\* the tag sets a search_tags text lists; no text lists no tag
ListedTags(text) ==
    IF text.t = "none" THEN {{}}
    ELSE {S \in SUBSET TagVals \ {{}} : text.chars \in Listings(S)}

\* C22: List with limit L, offset O and search_tags that list the tags S
\* (or without search_tags) returns min(L, k) files, where k is the number
\* of Objects that pass the tag filter among those that follow the first O
\* Objects in name order
C22_ListPagination ==
    [][\A p \in Procs :
        (/\ Started(p, "dataset_list_files")
         /\ proc'[p].limit # 0)
        => \A S \in ListedTags(proc'[p].search_tags) :
            \E q \in InNameOrder(db.dataset_objects) :
                LET k == Cardinality(
                        {i \in DOMAIN q :
                            /\ i > proc'[p].offset
                            /\ {t.tag : t \in TagsOf(db, q[i].id)}
                                    \cap S = {}})
                IN  /\ Rejected(proc'[p], 200, "OK")
                    /\ Len(proc'[p].body.files) = Min(proc'[p].limit, k)]_vars

\* C23: in a dataset Create, when the blob write is about to start the
\* hasher has been fed the whole content and the stream is at position 0;
\* once the blob is written it holds the whole content.  The uploads have
\* every length: empty, below, at and above one chunk, and two chunks
C23_HashRewindUpload ==
    \A p \in Procs :
        proc[p].op = "dataset_upload_file"
        => /\ proc[p].pc = "upload"
                => /\ proc[p].sha1 = ContentHash(proc[p].data)
                   /\ proc[p].pos = 0
           /\ proc[p].pc = "insert"
                => /\ proc[p].key \in DOMAIN s3.dataset
                   /\ s3.dataset[proc[p].key] = proc[p].data

\* a Create of one chunk and a byte has written its blob, after a Create
\* of the empty content has stored an Object
C23_Witness ==
    \E p \in Procs :
        /\ proc[p].op = "dataset_upload_file"
        /\ proc[p].pc = "insert"
        /\ Len(proc[p].data) = ChunkSize + 1
        /\ s3.dataset[proc[p].key] = proc[p].data
        /\ \E u \in hist.uploaded : u[2] = <<>>

C25_RowHasBlob ==
    /\ \A o \in db.dataset_objects :
            o.id \notin hist.delStarted
            => o.s3_object_name \in DOMAIN s3.dataset
    /\ \A o \in db.mlmodel_objects :
            o.id \notin hist.delStarted
            => o.s3_object_name \in DOMAIN s3.mlmodel

\* a dataset Create has failed after its blob write while an Object
\* created before it has its row and its blob, and a model Create stands
\* between its blob write and its insert
C25_Witness ==
    /\ \E p \in Procs :
            /\ proc[p].op = "dataset_upload_file"
            /\ Rejected(proc[p], 500, "DB error")
    /\ \E p \in Procs :
            /\ proc[p].op = "model_upload_file"
            /\ proc[p].pc = "insert"
    /\ \E o \in db.dataset_objects :
            /\ o.id \notin hist.delStarted
            /\ o.s3_object_name \in DOMAIN s3.dataset

\* a key of the dataset bucket that no Object row points to and no Create
\* under way has generated
Orphan(k) ==
    /\ k \in DOMAIN s3.dataset
    /\ \A o \in db.dataset_objects : o.s3_object_name # k
    /\ \A p \in Procs :
            ~(proc[p].op = "dataset_upload_file" /\ proc[p].pc = "insert"
              /\ proc[p].key = k)

\* C26: the step in which a dataset Create fails at its insert or commit,
\* after its blob write, leaves the blob under the generated key and
\* leaves every table as it was, so no Object row points to that key and
\* no Tag row of the upload exists; and no step of any operation removes
\* or changes a blob that no Object row points to
C26_OrphanBlobStays ==
    [][/\ \A p \in Procs :
            (/\ proc[p].op = "dataset_upload_file"
             /\ proc[p].pc = "insert"
             /\ Rejected(proc'[p], 500, "DB error"))
            => /\ proc[p].key \in DOMAIN s3'.dataset
               /\ s3'.dataset[proc[p].key] = proc[p].data
               /\ \A o \in db'.dataset_objects :
                    o.s3_object_name # proc[p].key
               /\ db' = db
       /\ \A k \in DOMAIN s3.dataset :
            (\A o \in db.dataset_objects : o.s3_object_name # k)
            => /\ k \in DOMAIN s3'.dataset
               /\ s3'.dataset[k] = s3.dataset[k]]_vars

\* a Create failed after its blob write and left an orphan; a Delete of
\* an Object created before it has since run to its end
C26_Witness ==
    /\ \E p \in Procs :
            /\ proc[p].op = "dataset_upload_file"
            /\ Rejected(proc[p], 500, "DB error")
    /\ \E k \in DOMAIN s3.dataset : Orphan(k)
    /\ \E p \in Procs :
            /\ proc[p].op = "dataset_delete_file"
            /\ Rejected(proc[p], 200, "OK")
            /\ proc[p].file_guid \in hist.deleted

\* the k-th initial tag insert of worker p's Create fails in this step
TagInsertFails(p, k) ==
    /\ proc[p].op = "dataset_upload_file"
    /\ proc[p].pc = "tags"
    /\ tags_inserted(proc[p]) = k - 1
    /\ Rejected(proc'[p], 500, "DB error")

\* C27 as stated: when the k-th initial tag insert of a Create fails, the
\* Object row and the first k-1 Tag rows of the upload are in the metadata
\* store after the failure
C27_BatchNotRolledBack ==
    [][\A p \in Procs : \A k \in 1..Len(proc[p].tags) :
        TagInsertFails(p, k)
        => /\ \E o \in db'.dataset_objects : o.id = proc[p].ret
           /\ Cardinality(TagsOf(db', proc[p].ret)) = k - 1]_vars

\* C27 as amended: when the k-th initial tag insert of a Create fails, the
\* tables are left as they were before the Create: neither the Object row
\* nor any of the first k-1 Tag rows of the upload is in the metadata
\* store, while the blob written before stays under its key
C27_BatchDiscarded ==
    [][\A p \in Procs : \A k \in 1..Len(proc[p].tags) :
        TagInsertFails(p, k)
        => /\ db' = db
           /\ \A o \in db'.dataset_objects : o.id # proc[p].ret
           /\ TagsOf(db', proc[p].ret) = {}
           /\ proc[p].key \in DOMAIN s3'.dataset
           /\ s3' = s3]_vars

\* the second tag insert of a Create failed: the Object row and the first
\* Tag row had been given their ids, and no table holds a row
C27_Witness ==
    \E p \in Procs :
        /\ proc[p].op = "dataset_upload_file"
        /\ Rejected(proc[p], 500, "DB error")
        /\ proc[p].ret # 0
        /\ nextUid = proc[p].ret + 2
        /\ db.dataset_objects = {}
        /\ db.dataset_object_tags = {}
        /\ DOMAIN s3.dataset # {}

\* C28: while Deletes are in progress and after Deletes were interrupted
\* at any sub-step, an Object whose row is absent has neither its blob nor
\* a Tag row left: every key of a bucket is the key of an Object row and
\* every Tag row is owned by an Object row (a row may point at a missing
\* blob, no blob is without a row)
C28_NoBlobWithoutRow ==
    /\ \A k \in DOMAIN s3.dataset :
            \E o \in db.dataset_objects : o.s3_object_name = k
    /\ \A t \in db.dataset_object_tags :
            \E o \in db.dataset_objects : o.id = t.dataset_object_id
    /\ \A k \in DOMAIN s3.mlmodel :
            \E o \in db.mlmodel_objects : o.s3_object_name = k
    /\ \A t \in db.mlmodel_object_tags :
            \E o \in db.mlmodel_objects : o.id = t.mlmodel_object_id

\* a Delete was interrupted by a database error after it had removed the
\* blob and the Tag rows: its Object row points at a missing blob
C28_Witness ==
    \E p \in Procs : \E o \in db.dataset_objects :
        /\ proc[p].op = "dataset_delete_file"
        /\ Rejected(proc[p], 500, "DB error")
        /\ o.id = proc[p].file_guid
        /\ o.s3_object_name \notin DOMAIN s3.dataset
        /\ TagsOf(db, o.id) = {}

\* C29: a step of a Delete of X that finds the blob of X already missing
\* goes on to the Tag rows unless the blob store itself fails; the step in
\* which a Delete of X returns success leaves no blob, no Tag row and no
\* Object row of X; a Delete of X accepted after a Delete of X returned
\* success ends with 404 'File not found' and changes nothing
C29_DeleteRetrySafe ==
    [][\A p \in Procs :
        /\ (/\ proc[p].op = "dataset_delete_file"
            /\ proc[p].pc = "s3delete"
            /\ proc[p].key \notin DOMAIN s3.dataset
            /\ proc'[p] # proc[p]
            /\ faults' = faults)
           => proc'[p].pc = "deltags"
        /\ (/\ proc[p].op = "dataset_delete_file"
            /\ proc[p].pc # "done"
            /\ Rejected(proc'[p], 200, "OK"))
           => /\ proc[p].key \notin DOMAIN s3'.dataset
              /\ TagsOf(db', proc[p].file_guid) = {}
              /\ \A o \in db'.dataset_objects : o.id # proc[p].file_guid
        /\ (/\ Started(p, "dataset_delete_file")
            /\ proc'[p].file_guid \in hist.deleted)
           => /\ Rejected(proc'[p], 404, "File not found")
              /\ db' = db
              /\ s3' = s3]_vars

\* a Delete of X stands interrupted after it removed the blob and the Tag
\* rows; a second Delete of X, accepted while the row was still there, has
\* returned success and nothing of X is left
C29_Witness ==
    \E p \in Procs : \E q \in Procs :
        /\ proc[p].op = "dataset_delete_file"
        /\ proc[p].pc = "delobj"
        /\ proc[q].op = "dataset_delete_file"
        /\ proc[q].file_guid = proc[p].file_guid
        /\ Rejected(proc[q], 200, "OK")
        /\ proc[p].key \notin DOMAIN s3.dataset
        /\ TagsOf(db, proc[p].file_guid) = {}
        /\ \A o \in db.dataset_objects : o.id # proc[p].file_guid

\* worker p's call to the blob store fails in this step
BlobCallFails(p, op, pc) ==
    /\ proc[p].op = op
    /\ proc[p].pc = pc
    /\ proc'[p] # proc[p]
    /\ faults' = faults + 1

\* C30: the step in which the blob write of a Create fails ends the Create
\* with the error and leaves every table and both buckets as they were;
\* the step in which the blob delete of a Delete fails ends the Delete with
\* the error and leaves the Object row, its Tag rows and its Label rows
\* (every table) and both buckets as they were; a request that has ended
\* takes no further step, so the blob operation is not tried again
C30_BlobFailurePropagates ==
    [][\A p \in Procs :
        /\ BlobCallFails(p, "dataset_upload_file", "upload")
           => /\ Rejected(proc'[p], 500, "S3 error")
              /\ db' = db
              /\ s3' = s3
        /\ BlobCallFails(p, "dataset_delete_file", "s3delete")
           => /\ Rejected(proc'[p], 500, "S3 error")
              /\ db' = db
              /\ s3' = s3
        /\ (proc[p].pc = "done" /\ proc'[p] # proc[p])
           => calls' = calls + 1]_vars

\* a Delete of the stored Object ended with the blob-store error: the
\* Object has its row, its blob, its Tag row and its Label rows
C30_Witness ==
    \E p \in Procs : \E o \in db.dataset_objects :
        /\ proc[p].op = "dataset_delete_file"
        /\ Rejected(proc[p], 500, "S3 error")
        /\ o.id = proc[p].file_guid
        /\ o.s3_object_name \in DOMAIN s3.dataset
        /\ TagsOf(db, o.id) # {}
        /\ Cardinality(LabelsOf(db, o.id)) = 2


\* worker p stands between the duplicate check and the insert of an Add Tag
\* while the Object has got a Tag row with the requested value
LateDuplicate(p) ==
    /\ proc[p].op = "dataset_file_add_tag"
    /\ proc[p].pc = "insert"
    /\ \E t \in TagsOf(db, proc[p].file_guid) : t.tag = proc[p].label

\* C31: an Add Tag that has passed its duplicate check inserts its Tag row
\* and answers 200 also when another Add Tag has inserted the same value on
\* the same Object in between: the check is not repeated, so both calls
\* succeed and the Object has two Tag rows of equal value
C31_AddTagRace ==
    [][\A p \in Procs :
        (LateDuplicate(p) /\ proc'[p] # proc[p])
        => /\ Rejected(proc'[p], 200, "OK")
           /\ \E t, u \in TagsOf(db', proc[p].file_guid) :
                /\ t.id # u.id
                /\ t.tag = proc[p].label
                /\ u.tag = proc[p].label
                /\ u.id = proc'[p].ret]_vars

\* both workers have answered 200 to an Add Tag of one value on one Object,
\* and the two rows they returned are in the table with that value
C31_Witness ==
    /\ \A p \in Procs :
            /\ proc[p].op = "dataset_file_add_tag"
            /\ Rejected(proc[p], 200, "OK")
    /\ proc[1].file_guid = proc[2].file_guid
    /\ proc[1].label = proc[2].label
    /\ proc[1].ret # proc[2].ret
    /\ \A p \in Procs :
            \E t \in TagsOf(db, proc[p].file_guid) :
                t.id = proc[p].ret /\ t.tag = proc[p].label
    /\ \E o \in db.dataset_objects : o.id = proc[1].file_guid

\* C32: with the dataset operations run one at a time, after any sequence
\* of Create (with any initial tag list), Add Tag and Delete Tag no Object
\* has two Tag rows with the same value
C32_TagValuesUnique ==
    \A t, u \in db.dataset_object_tags :
        (t.dataset_object_id = u.dataset_object_id /\ t.tag = u.tag)
        => t.id = u.id

\* every call has finished: no worker stands inside a handler
AllFinished == \A p \in Procs : Free(p)

\* C33: for every interleaving of an Add Tag or Add Label on an Object with
\* a Delete of it, and for every sequential run, once all calls have
\* finished every Tag row and every Label row references an Object row
\* that exists
C33_ChildrenHaveParent ==
    AllFinished
    => /\ \A t \in db.dataset_object_tags :
            \E o \in db.dataset_objects : o.id = t.dataset_object_id
       /\ \A l \in db.dataset_object_labels :
            \E o \in db.dataset_objects : o.id = l.dataset_object_id

\* the Object row of id g, and whether the blob that row points to exists
RowOf(d, g) == {o \in d.dataset_objects : o.id = g}
BlobOf(store, d, g) ==
    \E o \in RowOf(d, g) : o.s3_object_name \in DOMAIN store.dataset

\* the pair (row, blob) of id g moves in this step along
\* absent -> uploading -> stored -> deleting -> absent: a row appears only
\* with its blob written before, a blob does not come back under a row,
\* and a row goes only after its blob has gone
LifecycleStep(g) ==
    /\ (RowOf(db, g) = {} /\ RowOf(db', g) # {})
       => BlobOf(s3, db', g) /\ BlobOf(s3', db', g)
    /\ (RowOf(db, g) # {} /\ RowOf(db', g) # {})
       => /\ RowOf(db', g) = RowOf(db, g)
          /\ BlobOf(s3', db', g) => BlobOf(s3, db, g)
    /\ (RowOf(db, g) # {} /\ RowOf(db', g) = {})
       => ~BlobOf(s3, db, g)

\* a Tag or Label row of id g is committed in this step only while the
\* Object row of g is present (the initial tags of a Create are committed
\* together with the row)
ChildInsertWhileStored(g) ==
    (\/ TagsOf(db', g) \ TagsOf(db, g) # {}
     \/ {l.id : l \in LabelsOf(db', g)} \ {l.id : l \in LabelsOf(db, g)} # {})
    => RowOf(db', g) # {}

\* an id whose row a Delete has removed gets no row again
NoRowAgain(g) == g \in hist.deleted => RowOf(db', g) = {}

\* C34: for each Object id the pair (row present, blob present) only moves
\* along absent -> uploading -> stored -> deleting -> absent, Tag and Label
\* insertions for the id are committed only while its row is present, and
\* an id whose row Delete has removed never gets a row again
C34_Lifecycle ==
    [][\A g \in 1..nextUid' :
        /\ LifecycleStep(g)
        /\ ChildInsertWhileStored(g)
        /\ NoRowAgain(g)]_vars

\* every point of the polygon text is an object that, after the renaming
\* left -> x and top -> y, carries both coordinates and both temporal fields
FramePolygonComplete(polygon) ==
    /\ polygon.t = "list"
    /\ \A i \in DOMAIN polygon.pts :
        LET node == rename_node(json_object(polygon.pts[i]))
        IN  {"x", "y", "begin_frame", "end_frame"} \subseteq DOMAIN node

\* C35: Add Label and Update Label of main.py, on an existing Object (and
\* Label), accept a polygon iff every point, after renaming left -> x and
\* top -> y, carries both coordinates and both begin_frame and end_frame,
\* so {x, y, begin_frame, end_frame} is accepted like {left, top,
\* begin_frame, end_frame}; any other polygon ends with 400 and no row is
\* inserted or updated
C35_TemporalPolygonAccepted ==
    [][\A p \in Procs :
        /\ (/\ Started(p, "main_dataset_file_add_label")
            /\ \E o \in db.dataset_objects : o.id = proc'[p].file_guid)
           => /\ db' = db
              /\ IF FramePolygonComplete(proc'[p].polygon)
                 THEN proc'[p].pc = "insert"
                 ELSE proc'[p].pc = "done" /\ proc'[p].status = 400
        /\ (/\ proc[p].op = "main_dataset_file_update_label"
            /\ proc[p].pc = "label"
            /\ proc'[p] # proc[p]
            /\ \E l \in LabelsOf(db, proc[p].file_guid) :
                    l.id = proc[p].sub_guid)
           => /\ db' = db
              /\ IF FramePolygonComplete(proc[p].polygon)
                 THEN proc'[p].pc = "update"
                 ELSE proc'[p].pc = "done" /\ proc'[p].status = 400]_vars

\* C36: in every state reached by Add Label, Update Label and Delete Label
\* run one at a time, no Object has two Label rows with the same label
\* name and the same stored polygon
C36_LabelsUnique ==
    \A l, m \in db.dataset_object_labels :
        (/\ l.dataset_object_id = m.dataset_object_id
         /\ l.label = m.label
         /\ l.polygon = m.polygon)
        => l.id = m.id

\* the canonical polygon the response of an accepted Add Label of this
\* polygon text carries
ResponsePolygon(polygon) == parse_polygon(polygon).nodes

\* C37: an accepted Add Label stores its row and answers with the canonical
\* polygon of the submitted text, and a later Details shows for every Label
\* row whose text Add Label accepts (points with x and left, y and top or
\* further fields included) the polygon that response carried
C37_WriteReadAgree ==
    [][\A p \in Procs :
        /\ (/\ proc[p].op = "dataset_file_add_label"
            /\ proc[p].pc = "insert"
            /\ proc'[p] # proc[p])
           => /\ Rejected(proc'[p], 200, "OK")
              /\ proc'[p].nodes = ResponsePolygon(proc[p].polygon)
              /\ \E l \in LabelsOf(db', proc[p].file_guid) :
                    l.id = proc'[p].ret /\ l.polygon = proc[p].polygon
        /\ (/\ Started(p, "dataset_file_details")
            /\ Rejected(proc'[p], 200, "OK"))
           => \A i \in DOMAIN proc'[p].body.labels :
                \A l \in LabelsOf(db, proc'[p].file_guid) :
                    (/\ l.id = proc'[p].body.labels[i].label_guid
                     /\ parse_polygon(l.polygon).status = 200)
                    => proc'[p].body.labels[i].polygon
                            = ResponsePolygon(l.polygon)]_vars

\* worker p's Create is rejected in this step as a duplicate of content
\* that is stored already
DuplicateRejected(p) ==
    /\ Started(p, "dataset_upload_file")
    /\ Rejected(proc'[p], 400, "File already exists")

\* the Object rows whose content hash is that of the data
Matching(d, data) ==
    {o \in d.dataset_objects : o.file_hash_sha1 = ContentHash(data)}

\* C38 as stated: whenever a dataset Create is rejected with the
\* duplicate-content error, also in the states a Delete interrupted after
\* its blob removal has left, the blob of the matching Object is in the
\* blob store
C38_DuplicateHasBlob ==
    [][\A p \in Procs :
        DuplicateRejected(p)
        => /\ Matching(db, proc'[p].data) # {}
           /\ \A o \in Matching(db, proc'[p].data) :
                o.s3_object_name \in DOMAIN s3.dataset]_vars

\* C38 as amended: whenever a dataset Create is rejected with the
\* duplicate-content error, a matching Object row exists, and its blob is
\* in the blob store with the uploaded content unless a Delete of that
\* Object has been started (running, failed or interrupted after its blob
\* removal)
C38_DuplicateHasBlobUnlessDeleting ==
    [][\A p \in Procs :
        DuplicateRejected(p)
        => /\ Matching(db, proc'[p].data) # {}
           /\ \A o \in Matching(db, proc'[p].data) :
                \/ /\ o.s3_object_name \in DOMAIN s3.dataset
                   /\ s3.dataset[o.s3_object_name] = proc'[p].data
                \/ o.id \in hist.delStarted]_vars

\* a Delete has failed in the database after its blob removal, and a Create
\* of the content of that Object has been rejected as a duplicate since
C38_Witness ==
    \E p, q \in Procs :
        /\ proc[p].op = "dataset_upload_file"
        /\ Rejected(proc[p], 400, "File already exists")
        /\ proc[q].op = "dataset_delete_file"
        /\ Rejected(proc[q], 500, "DB error")
        /\ \E o \in Matching(db, proc[p].data) :
            /\ o.id = proc[q].file_guid
            /\ o.s3_object_name \notin DOMAIN s3.dataset

\* worker p's Download, which has found the Object row, ends in this step
DownloadEnds(p) ==
    /\ proc[p].op = "dataset_download_file"
    /\ proc[p].pc = "get"
    /\ proc'[p] # proc[p]

\* the answer is the complete content uploaded for the Object
CompleteContent(r) ==
    /\ Rejected(r, 200, "OK")
    /\ <<r.file_guid, r.body, "dataset">> \in hist.uploaded

\* C39 as stated: in every interleaving with a Delete of the same Object a
\* Download returns the complete content or ends with 404 'File not found';
\* it never finds the Object row and then fails on the missing blob
C39_DownloadAllOrNotFound ==
    [][\A p \in Procs :
        /\ Started(p, "dataset_download_file")
           => \/ proc'[p].pc = "get"
              \/ Rejected(proc'[p], 404, "File not found")
        /\ DownloadEnds(p) => CompleteContent(proc'[p])]_vars

\* C39 as amended: a Download returns the complete content, or ends with
\* 404 'File not found' when no Object row exists, or, having found the
\* row, fails with the blob store's missing-key error when a Delete of the
\* Object has removed the blob; it never returns other content
C39_DownloadAllOrNotFoundOrMissingBlob ==
    [][\A p \in Procs :
        /\ Started(p, "dataset_download_file")
           => IF \E o \in db.dataset_objects : o.id = proc'[p].file_guid
              THEN proc'[p].pc = "get"
              ELSE Rejected(proc'[p], 404, "File not found")
        /\ DownloadEnds(p)
           => \/ CompleteContent(proc'[p])
              \/ /\ Rejected(proc'[p], 500, "NoSuchKey")
                 /\ proc[p].key \notin DOMAIN s3.dataset
                 /\ proc[p].file_guid \in hist.delStarted]_vars

\* a Download found the Object row and failed on the blob that a Delete of
\* the same Object, running on the other worker, had removed
C39_Witness ==
    \E p, q \in Procs :
        /\ proc[p].op = "dataset_download_file"
        /\ Rejected(proc[p], 500, "NoSuchKey")
        /\ proc[q].op = "dataset_delete_file"
        /\ proc[q].file_guid = proc[p].file_guid
        /\ proc[q].pc \in {"deltags", "delobj", "done"}
====
